---------------------------- MODULE Spec2Model ----------------------------
(***************************************************************************)
(* A model of vk_path_tracer: the ray tracing pipeline checkpoint          *)
(* (checkpoints/e11_rt_pipeline_1/main.cpp), its shader binding table      *)
(* (SBT) arithmetic and packing, and the accumulating ray-generation       *)
(* shader of the windowed application (_edit/shaders).                     *)
(*                                                                         *)
(* The specifications of the module:                                       *)
(*   Spec      one run of main(), device limits and build mode drawn by    *)
(*             Init, the GPU queue as a second process;                    *)
(*   SpecSBT   the SBT stride computation and the handle copy loop as      *)
(*             pure functions of (handleSize, baseAlignment,               *)
(*             handleAlignment, groups.size());                            *)
(*   SpecAccum the ray-generation shader's accumulation into one pixel of  *)
(*             the persistent image over consecutive frame indices;        *)
(*   SpecReadback, SpecAssets  Spec from other initial states: a filled    *)
(*             output image, and mesh and shader files that may be bad;    *)
(*   SpecScene the scene setup of main() by itself;                        *)
(*   SpecWindow the windowed application's PathTracerWindow;               *)
(*   SpecRuns  two runs of main() side by side;                            *)
(*   SpecPath  the path loop of the ray-generation shader;                 *)
(*   SpecMesh, SpecSize  the narrowing conversions of the BLAS input and   *)
(*             of the SBT buffer size.                                     *)
(* Each specification leaves the variables of the others untouched.        *)
(***************************************************************************)
EXTENDS Integers, Sequences, FiniteSets

VARIABLES
    (* ---- Spec: main() of e11_rt_pipeline_1 ---- *)
    pc,                 \* position of the host thread in main()
    ndebug,             \* TRUE when the build defines NDEBUG (assert is a no-op)
    dev,                \* VkPhysicalDeviceRayTracingPipelinePropertiesKHR
    sbtStride,          \* const VkDeviceSize sbtStride
    live,               \* objects created and not yet destroyed
    created,            \* objects in order of creation
    destroyed,          \* objects in order of destruction
    cmdBuf,             \* command buffers: lifecycle state and recorded commands
    pushConstants,      \* the global PushConstants pushConstants
    sampleBatch,        \* loop variable of the sample batch loop
    traceLog,           \* one entry per recorded vkCmdTraceRaysKHR
    cpuShaderHandleStorage, \* host block of shader group handles
    sbtBuffer,          \* bytes of rtSBTBuffer
    sbtStartAddress,    \* device address of rtSBTBuffer
    regions,            \* sbtRayGenRegion, sbtMissRegion, sbtHitRegion, sbtCallableRegion
    imageLayout,        \* layout of `image` as the GPU has executed it
    gpuTraces,          \* trace-rays dispatches the GPU has completed
    gpuMem,             \* which device writes later stages and the host are sure to see
    outHdr,             \* the files stbi_write_hdr has written, by what the host read
    staging,            \* staging buffers the allocator holds
    asBuilds,           \* acceleration structure builds issued by raytracingBuilder
    descriptorSet,      \* what descriptor set 0 binds
    writeLog,           \* host writes to the descriptor set and to the SBT buffer
    printed,            \* what the buffer-fill checkpoint has read back and printed
    assets,             \* the mesh file and the shader binary the run finds on disk
    (* ---- SpecSBT ---- *)
    t_pc, t_in, t_stride, t_handles, t_sbt, t_group, t_oob,
    (* ---- SpecAccum ---- *)
    a_frame, a_image, a_batches,
    (* ---- SpecScene: the acceleration structures of main() ---- *)
    s_pc,               \* position in the slice of main()
    s_builder,          \* raytracingBuilder: the BLASes and the TLAS it has built
    s_x, s_y,           \* loop variables of the instance grid
    s_instances,        \* std::vector<VkAccelerationStructureInstanceKHR> instances
    s_regions,          \* the four SBT regions
    s_trace,            \* the regions handed to each vkCmdTraceRaysKHR
    (* ---- SpecWindow: PathTracerWindow ---- *)
    w_pc,               \* position in PathTracerWindow::begin()
    w_calls,            \* the Vulkan calls made, with the VkResult each returned
    w_imageCount,       \* m_swapchain.getImageCount()
    w_framebuffers,     \* m_framebuffers
    w_i,                \* loop index i of createFramebuffers
    w_busy,             \* TRUE while the device has submitted work in flight
    w_destroyed,        \* the vkDestroyFramebuffer calls made, in order
    w_handles,          \* number of framebuffer handles the driver has handed out
    w_resizes,          \* number of resize() calls so far
    w_pass,             \* the render pass think() recorded last
    (* ---- SpecRuns: two runs of main() side by side ---- *)
    d_runs,             \* what each run has fed to the GPU so far
    (* ---- SpecPath: the path loop of the ray-generation shader ---- *)
    p_path,             \* one invocation: sample index, payload prd, trace calls
    (* ---- SpecMesh: the BLAS input computed from the parsed mesh ---- *)
    m_mesh,             \* sizes of objVertices and objIndices, buffers, BLAS input
    (* ---- SpecSize: the widths of the SBT sizing arithmetic ---- *)
    z_sbt               \* device properties and the values computed from them

mainVars == << pc, ndebug, dev, sbtStride, live, created, destroyed, cmdBuf,
               pushConstants, sampleBatch, traceLog, cpuShaderHandleStorage,
               sbtBuffer, sbtStartAddress, regions, imageLayout, gpuTraces,
               gpuMem, outHdr, staging, asBuilds, descriptorSet, writeLog, printed,
               assets >>
sbtVars == << t_pc, t_in, t_stride, t_handles, t_sbt, t_group, t_oob >>
accVars == << a_frame, a_image, a_batches >>
sceneVars == << s_pc, s_builder, s_x, s_y, s_instances, s_regions, s_trace >>
frameVars == << w_busy, w_destroyed, w_handles, w_resizes, w_pass >>
winVars == << w_pc, w_calls, w_imageCount, w_framebuffers, w_i, frameVars >>
extraVars == << d_runs, p_path, m_mesh, z_sbt >>
auxVars == << sceneVars, winVars, extraVars >>
vars == << mainVars, sbtVars, accVars, auxVars >>

(***************************************************************************)
(* Bounds of the model.                                                    *)
(***************************************************************************)
MaxHandleSize == 3
MaxAlignment == 3
MaxStrideLimit == 4
MaxGroups == 3
MaxAddress == 2
MaxFrame == 3
MaxBatchValue == 3
MaxImages == 3
MaxResizes == 2
MaxShapes == 2
MaxVertices == 7
MaxTriangles == 7
\* Width of a uint32_t in the model; size_t and VkDeviceSize are twice as
\* wide.  The real widths, 32 and 64 bits, are beyond TLC's integers; the
\* model keeps their ratio.
WordBits == 3

(***************************************************************************)
(* Program constants.                                                      *)
(***************************************************************************)
NUM_SAMPLE_BATCHES == 32
GroupCount == 1

(***************************************************************************)
(* SBT arithmetic (main.cpp 81-100) and packing (main.cpp 462-473).        *)
(***************************************************************************)
\* A stride that rounds the header size down instead of up.
SbtStride_RoundDown(sbtHeaderSize, sbtBaseAlignment) ==
    sbtBaseAlignment * (sbtHeaderSize \div sbtBaseAlignment)

\* A stride that always adds one more alignment unit.
SbtStride_ExtraUnit(sbtHeaderSize, sbtBaseAlignment) ==
    sbtBaseAlignment * ((sbtHeaderSize \div sbtBaseAlignment) + 1)

\* A stride with the parentheses of the division lost.
SbtStride_NoParen(sbtHeaderSize, sbtBaseAlignment) ==
    (sbtBaseAlignment * (sbtHeaderSize + sbtBaseAlignment - 1)) \div sbtBaseAlignment

\* sbtBaseAlignment * ((sbtHeaderSize + sbtBaseAlignment - 1) / sbtBaseAlignment)
SbtStride(sbtHeaderSize, sbtBaseAlignment) ==
    sbtBaseAlignment * ((sbtHeaderSize + sbtBaseAlignment - 1) \div sbtBaseAlignment)

\* assert(sbtBaseAlignment % sbtHandleAlignment == 0)
AlignmentOk(sbtBaseAlignment, sbtHandleAlignment) ==
    sbtBaseAlignment % sbtHandleAlignment = 0

\* assert(sbtStride <= rtPipelineProperties.maxShaderGroupStride)
StrideOk(stride, maxShaderGroupStride) == stride <= maxShaderGroupStride

\* An assert stops the run only in a build without NDEBUG.
AssertPasses(nd, cond) == nd \/ cond

\* A buffer sized for one record, however many groups there are.
SbtSize_OneRecord(stride, groupCount) == stride

\* sbtSize = sbtStride * groups.size()
SbtSize(stride, groupCount) == stride * groupCount

\* A destination offset that forgets the stride.
SbtRecordOffset_NoStride(groupIndex, stride) == groupIndex

\* &mappedSBT[groupIndex * sbtStride]
SbtRecordOffset(groupIndex, stride) == groupIndex * stride

\* &cpuShaderHandleStorage[groupIndex * sbtHeaderSize]
HandleOffset(groupIndex, sbtHeaderSize) == groupIndex * sbtHeaderSize

\* Value of a byte of device memory nobody has written.
Undef == 0

\* A buffer of n bytes, none written: indices 0 .. n-1.
NewBuffer(n) == [k \in 0 .. (n - 1) |-> Undef]

\* vkGetRayTracingShaderGroupHandlesKHR: the driver fills the block with
\* handle bytes; every byte of every handle is a distinct token.
GroupHandles(sbtHeaderSize, groupCount) ==
    [k \in 0 .. (sbtHeaderSize * groupCount - 1) |-> k + 1]

\* memcpy(&dst[dstOff], &src[srcOff], n), for ranges inside both buffers.
Memcpy(dst, dstOff, src, srcOff, n) ==
    [k \in DOMAIN dst |->
        IF k >= dstOff /\ k < dstOff + n /\ (srcOff + (k - dstOff)) \in DOMAIN src
        THEN src[srcOff + (k - dstOff)]
        ELSE dst[k]]

\* TRUE when the memcpy leaves either buffer.
MemcpyOutOfBounds(dst, dstOff, src, srcOff, n) ==
    n > 0 /\ \E k \in 0 .. (n - 1) :
                (dstOff + k) \notin DOMAIN dst \/ (srcOff + k) \notin DOMAIN src

\* One iteration of the copy loop.
CopyGroup(mappedSBT, handles, groupIndex, stride, sbtHeaderSize) ==
    Memcpy(mappedSBT, SbtRecordOffset(groupIndex, stride),
           handles, HandleOffset(groupIndex, sbtHeaderSize), sbtHeaderSize)

RECURSIVE CopyLoop(_, _, _, _, _, _)
\* for(groupIndex = from; groupIndex < groupCount; groupIndex++) memcpy(...)
CopyLoop(mappedSBT, handles, from, groupCount, stride, sbtHeaderSize) ==
    IF from >= groupCount THEN mappedSBT
    ELSE CopyLoop(CopyGroup(mappedSBT, handles, from, stride, sbtHeaderSize),
                  handles, from + 1, groupCount, stride, sbtHeaderSize)


(***************************************************************************)
(* SpecSBT: the SBT manager's arithmetic and copy loop applied to inputs   *)
(* drawn from bounded sets.  The copy loop is taken one iteration at a     *)
(* time.                                                                   *)
(***************************************************************************)
\* The variables of Spec, parked while another specification runs.
\* scenes/CornellBox-Original-Merged.obj with its one shape, and
\* shaders/raytrace.rgen.glsl.spv, both found
GoodAssets == [mesh |-> "valid", shapes |-> 1, shader |-> TRUE]

MainParked ==
    /\ pc = "parked"
    /\ ndebug = FALSE
    /\ assets = GoodAssets
    /\ dev = [shaderGroupHandleSize |-> 0, shaderGroupBaseAlignment |-> 1,
              shaderGroupHandleAlignment |-> 1, maxShaderGroupStride |-> 0]
    /\ sbtStride = 0
    /\ live = {}
    /\ created = << >>
    /\ destroyed = << >>
    /\ cmdBuf = << >>
    /\ pushConstants = [sample_batch |-> 0]
    /\ sampleBatch = 0
    /\ traceLog = << >>
    /\ cpuShaderHandleStorage = << >>
    /\ sbtBuffer = << >>
    /\ sbtStartAddress = 0
    /\ regions = << >>
    /\ imageLayout = "UNDEFINED"
    /\ gpuTraces = 0
    /\ gpuMem = << >>
    /\ outHdr = << >>
    /\ staging = {}
    /\ asBuilds = << >>
    /\ descriptorSet = << >>
    /\ writeLog = << >>
    /\ printed = << >>

\* The variables of SpecSBT, parked.
SbtParked ==
    /\ t_pc = "parked"
    /\ t_in = [handleSize |-> 0, baseAlignment |-> 1, handleAlignment |-> 1, groupCount |-> 1]
    /\ t_stride = 0
    /\ t_handles = << >>
    /\ t_sbt = << >>
    /\ t_group = 0
    /\ t_oob = FALSE

\* The variables of SpecAccum, parked.
AccParked ==
    /\ a_frame = 0
    /\ a_image = << 0, 1 >>
    /\ a_batches = << >>

\* The variables of SpecScene and SpecWindow, parked.
SceneParked ==
    /\ s_pc = "parked"
    /\ s_builder = << >>
    /\ s_x = 0
    /\ s_y = 0
    /\ s_instances = << >>
    /\ s_regions = << >>
    /\ s_trace = << >>

WinParked ==
    /\ w_pc = "parked"
    /\ w_calls = << >>
    /\ w_imageCount = 0
    /\ w_framebuffers = << >>
    /\ w_i = 0
    /\ w_busy = FALSE
    /\ w_destroyed = << >>
    /\ w_handles = 0
    /\ w_resizes = 0
    /\ w_pass = << >>

\* The variables of the remaining specifications, parked.
RunsParked == d_runs = << >>
PathParked == p_path = << >>
MeshParked == m_mesh = << >>
SizeParked == z_sbt = << >>
ExtraParked == RunsParked /\ PathParked /\ MeshParked /\ SizeParked

AuxParked == SceneParked /\ WinParked /\ ExtraParked

InitSBT ==
    /\ t_pc = "stride"
    /\ t_in \in [handleSize : 0 .. MaxHandleSize,
                 baseAlignment : 1 .. MaxAlignment,
                 handleAlignment : 1 .. MaxAlignment,
                 groupCount : 1 .. MaxGroups]
    /\ t_stride = 0
    /\ t_handles = << >>
    /\ t_sbt = << >>
    /\ t_group = 0
    /\ t_oob = FALSE
    /\ MainParked
    /\ AccParked
    /\ AuxParked

\* const VkDeviceSize sbtStride = ...
T_ComputeStride ==
    /\ t_pc = "stride"
    /\ t_stride' = SbtStride(t_in.handleSize, t_in.baseAlignment)
    /\ t_pc' = "handles"
    /\ UNCHANGED << t_in, t_handles, t_sbt, t_group, t_oob >>
    /\ UNCHANGED << mainVars, accVars, auxVars >>

\* cpuShaderHandleStorage(sbtHeaderSize * groups.size()), filled by the driver
T_GetHandles ==
    /\ t_pc = "handles"
    /\ t_handles' = GroupHandles(t_in.handleSize, t_in.groupCount)
    /\ t_pc' = "alloc"
    /\ UNCHANGED << t_in, t_stride, t_sbt, t_group, t_oob >>
    /\ UNCHANGED << mainVars, accVars, auxVars >>

\* rtSBTBuffer = allocator.createBuffer(sbtSize, ...); mappedSBT = map; groupIndex = 0
T_CreateBuffer ==
    /\ t_pc = "alloc"
    /\ t_sbt' = NewBuffer(SbtSize(t_stride, t_in.groupCount))
    /\ t_group' = 0
    /\ t_pc' = "copy"
    /\ UNCHANGED << t_in, t_stride, t_handles, t_oob >>
    /\ UNCHANGED << mainVars, accVars, auxVars >>

\* one iteration: memcpy(&mappedSBT[groupIndex * sbtStride], ...); groupIndex++
T_CopyGroup ==
    /\ t_pc = "copy"
    /\ t_group < t_in.groupCount
    /\ t_sbt' = CopyGroup(t_sbt, t_handles, t_group, t_stride, t_in.handleSize)
    /\ t_oob' = (t_oob \/ MemcpyOutOfBounds(t_sbt, SbtRecordOffset(t_group, t_stride),
                                            t_handles, HandleOffset(t_group, t_in.handleSize),
                                            t_in.handleSize))
    /\ t_group' = t_group + 1
    /\ UNCHANGED << t_pc, t_in, t_stride, t_handles >>
    /\ UNCHANGED << mainVars, accVars, auxVars >>

\* loop exit; allocator.unmap(rtSBTBuffer)
T_Unmap ==
    /\ t_pc = "copy"
    /\ t_group >= t_in.groupCount
    /\ t_pc' = "done"
    /\ UNCHANGED << t_in, t_stride, t_handles, t_sbt, t_group, t_oob >>
    /\ UNCHANGED << mainVars, accVars, auxVars >>

NextSBT ==
    \/ T_ComputeStride
    \/ T_GetHandles
    \/ T_CreateBuffer
    \/ T_CopyGroup
    \/ T_Unmap

SpecSBT == InitSBT /\ [][NextSBT]_vars

\* TRUE once SpecSBT has computed the stride.
T_StrideComputed == t_pc \in {"handles", "alloc", "copy", "done"}

\* The least multiple of b that is >= h, found by search.
LeastMultipleAtLeast(h, b) ==
    CHOOSE m \in 0 .. (h + b) :
        /\ m % b = 0
        /\ m >= h
        /\ \A n \in 0 .. (h + b) : (n % b = 0 /\ n >= h) => m <= n

(* C1: whenever baseAlignment is a multiple of handleAlignment, the        *)
(* computed SBT stride is a multiple of baseAlignment and is at least      *)
(* handleSize.                                                             *)
C1_StrideMultipleOfBaseAndCoversHandle ==
    (T_StrideComputed /\ AlignmentOk(t_in.baseAlignment, t_in.handleAlignment))
        => /\ t_stride % t_in.baseAlignment = 0
           /\ t_stride >= t_in.handleSize

C1_Witness ==
    /\ t_pc = "done"
    /\ t_in.handleSize = 3 /\ t_in.baseAlignment = 2 /\ t_in.handleAlignment = 2
    /\ t_stride = 4

(* C2: the stride the code computes is the least multiple of               *)
(* baseAlignment that is >= handleSize, so it exceeds handleSize by less   *)
(* than baseAlignment.                                                     *)
C2_StrideIsLeastMultiple ==
    T_StrideComputed
        => /\ t_stride = LeastMultipleAtLeast(t_in.handleSize, t_in.baseAlignment)
           /\ t_stride - t_in.handleSize < t_in.baseAlignment

C2_Witness ==
    /\ T_StrideComputed
    /\ t_in.handleSize = 2 /\ t_in.baseAlignment = 2
    /\ t_stride = 2

(* C3: whenever baseAlignment is a multiple of handleAlignment, the        *)
(* computed stride is a multiple of handleAlignment.                       *)
C3_StrideMultipleOfHandleAlignment ==
    (T_StrideComputed /\ AlignmentOk(t_in.baseAlignment, t_in.handleAlignment))
        => t_stride % t_in.handleAlignment = 0

C3_Witness ==
    /\ T_StrideComputed
    /\ t_in.handleSize = 3 /\ t_in.baseAlignment = 2 /\ t_in.handleAlignment = 2
    /\ t_stride % 2 = 0 /\ t_stride > 0

(* C5: SBT packing round trip: once the copy loop has written group g,     *)
(* the handleSize bytes at SBT offset g*stride are group g's original      *)
(* handle bytes, and no later iteration changes them.                      *)
C5_PackingRoundTrip ==
    t_pc \in {"copy", "done"}
        => \A g \in 0 .. (t_group - 1) :
              \A i \in 0 .. (t_in.handleSize - 1) :
                 /\ (g * t_stride + i) \in DOMAIN t_sbt
                 /\ t_sbt[g * t_stride + i] = t_handles[g * t_in.handleSize + i]

C5_Witness ==
    /\ t_pc = "done"
    /\ t_in.groupCount = 3 /\ t_group = 3
    /\ t_in.handleSize = 3 /\ t_stride = 4
    /\ t_sbt[8] = t_handles[6] /\ t_sbt[3] = Undef


(* C25: every write of the SBT copy loop stays inside both buffers: for   *)
(* each group g the destination range [g*stride, g*stride + handleSize)    *)
(* lies in the SBT buffer of stride*groupCount bytes and the source range  *)
(* [g*handleSize, (g+1)*handleSize) in the handle block of                 *)
(* handleSize*groupCount bytes; the groups copied so far hold their        *)
(* handles and only the padding from handleSize to stride of each record   *)
(* is left unwritten.                                                      *)
C25_CopyLoopStaysInsideBuffers ==
    /\ ~t_oob
    /\ t_pc \in {"copy", "done"}
          => LET h == t_in.handleSize
                 n == t_in.groupCount
             IN /\ DOMAIN t_sbt = 0 .. (t_stride * n - 1)
                /\ DOMAIN t_handles = 0 .. (h * n - 1)
                /\ \A g \in 0 .. (n - 1) :
                      /\ g * t_stride + h <= t_stride * n
                      /\ (g + 1) * h <= h * n
                      /\ \A k \in 0 .. (t_stride - 1) :
                            t_sbt[g * t_stride + k] =
                                IF g < t_group /\ k < h THEN t_handles[g * h + k] ELSE Undef

C25_Witness ==
    /\ t_pc = "done"
    /\ t_in.handleSize = 3 /\ t_in.baseAlignment = 2 /\ t_in.groupCount = MaxGroups
    /\ t_group = MaxGroups
    /\ t_sbt[2 * t_stride + 2] = t_handles[8]
    /\ t_sbt[2 * t_stride + 3] = Undef
    /\ ~t_oob

(***************************************************************************)
(* Spec: one run of main() in checkpoints/e11_rt_pipeline_1/main.cpp.      *)
(* The host thread walks through main() (pc); the GPU queue starts and     *)
(* finishes submitted command buffers on its own.  Init draws the device   *)
(* limits the driver reports and whether the build defines NDEBUG.         *)
(***************************************************************************)
\* What a run of main() never changes: the build, the device limits, and the
\* variables of the other two specifications.
buildEnv == << ndebug, dev, assets, sbtVars, accVars, auxVars >>
envState == << buildEnv, printed >>
objState == << live, created, destroyed >>
sbtState == << cpuShaderHandleStorage, sbtBuffer, sbtStartAddress, regions >>
loopState == << pushConstants, sampleBatch, traceLog >>
gpuState == << cmdBuf, imageLayout, gpuTraces, gpuMem >>
gpuEffects == << imageLayout, gpuTraces, gpuMem >>
hostLog == << outHdr, staging, asBuilds, descriptorSet, writeLog >>

\* Device memory before any command has run: no write of `image` is
\* available to transfers, and what a transfer writes (imageLinear, or the
\* buffer of the fill checkpoint) and what the host would read there are
\* unwritten.
InitialMem ==
    [transferVisible |-> 0, transferDst |-> Undef, hostVisible |-> Undef, uploaded |-> {}]

\* Descriptor set 0 as allocated by initPool(1): nothing written yet.
NoBindings ==
    [imageData |-> "none", tlas |-> "none", vertices |-> "none", indices |-> "none"]

\* VkCommandBuffer uploadCmdBuffer; the batch command buffers are 0 .. 31.
UploadCmd == -1
CmdIds == UploadCmd .. (NUM_SAMPLE_BATCHES - 1)

\* A VkStridedDeviceAddressRegionKHR declared and not yet assigned.
UninitRegion == [deviceAddress |-> -1, stride |-> -1, size |-> -1]

\* Addresses vkGetBufferDeviceAddress may return for rtSBTBuffer.
DeviceAddresses == 1 .. MaxAddress

\* The state of a process that has not made any Vulkan call yet.
NothingCreated ==
    /\ sbtStride = 0
    /\ live = {}
    /\ created = << >>
    /\ destroyed = << >>
    /\ cmdBuf = [c \in CmdIds |-> [state |-> "Unallocated", commands |-> << >>]]
    /\ pushConstants = [sample_batch |-> 0]
    /\ sampleBatch = 0
    /\ traceLog = << >>
    /\ cpuShaderHandleStorage = << >>
    /\ sbtBuffer = << >>
    /\ sbtStartAddress = 0
    /\ regions = [raygen |-> UninitRegion, miss |-> UninitRegion,
                  hit |-> UninitRegion, callable |-> UninitRegion]
    /\ imageLayout = "UNDEFINED"
    /\ gpuTraces = 0
    /\ gpuMem = InitialMem
    /\ outHdr = << >>
    /\ staging = {}
    /\ asBuilds = << >>
    /\ descriptorSet = NoBindings
    /\ writeLog = << >>
    /\ printed = << >>
    /\ SbtParked
    /\ AccParked
    /\ AuxParked

Init ==
    /\ pc = "context_init"
    /\ ndebug \in BOOLEAN
    /\ assets = GoodAssets
    /\ dev \in [shaderGroupHandleSize : 1 .. MaxHandleSize,
                shaderGroupBaseAlignment : 1 .. MaxAlignment,
                shaderGroupHandleAlignment : 1 .. MaxAlignment,
                maxShaderGroupStride : 1 .. MaxStrideLimit]
    /\ NothingCreated

\* The host proceeds from one statement of main() to the next.
Goto(from, to) == pc = from /\ pc' = to

\* An object comes into existence.
Create(obj) ==
    /\ live' = live \cup {obj}
    /\ created' = Append(created, obj)
    /\ UNCHANGED destroyed

\* A statement that creates one object and touches nothing else.
CreateStep(from, obj, to) ==
    /\ Goto(from, to)
    /\ Create(obj)
    /\ UNCHANGED << envState, hostLog, sbtStride, sbtState, loopState, gpuState >>

\* sbtHeaderSize, sbtBaseAlignment, sbtHandleAlignment
sbtHeaderSize == dev.shaderGroupHandleSize
sbtBaseAlignment == dev.shaderGroupBaseAlignment
sbtHandleAlignment == dev.shaderGroupHandleAlignment

\* context.init(deviceInfo)
ContextInit ==
    /\ CreateStep("context_init", "context", "query_props")

\* vkGetPhysicalDeviceProperties2(...)
QueryProperties ==
    /\ Goto("query_props", "assert_align")
    /\ UNCHANGED << envState, hostLog, sbtStride, objState, sbtState, loopState, gpuState >>

\* assert(sbtBaseAlignment % sbtHandleAlignment == 0)
AssertAlignment ==
    /\ pc = "assert_align"
    /\ pc' = IF AssertPasses(ndebug, AlignmentOk(sbtBaseAlignment, sbtHandleAlignment))
             THEN "compute_stride" ELSE "aborted"
    /\ UNCHANGED << envState, hostLog, sbtStride, objState, sbtState, loopState, gpuState >>

\* const VkDeviceSize sbtStride = ...
ComputeStride ==
    /\ Goto("compute_stride", "assert_stride")
    /\ sbtStride' = SbtStride(sbtHeaderSize, sbtBaseAlignment)
    /\ UNCHANGED << envState, hostLog, objState, sbtState, loopState, gpuState >>

\* assert(sbtStride <= rtPipelineProperties.maxShaderGroupStride)
AssertStride ==
    /\ pc = "assert_stride"
    /\ pc' = IF AssertPasses(ndebug, StrideOk(sbtStride, dev.maxShaderGroupStride))
             THEN "allocator_init" ELSE "aborted"
    /\ UNCHANGED << envState, hostLog, sbtStride, objState, sbtState, loopState, gpuState >>

\* allocator.init(context, context.m_physicalDevice)
CreateAllocator ==
    /\ CreateStep("allocator_init", "allocator", "create_image")

\* nvvk::Image image = allocator.createImage(imageCreateInfo)
CreateImage ==
    /\ CreateStep("create_image", "image", "create_image_view")

\* vkCreateImageView(context, &imageViewCreateInfo, nullptr, &imageView)
CreateImageView ==
    /\ CreateStep("create_image_view", "imageView", "create_image_linear")

\* nvvk::Image imageLinear = allocator.createImage(imageCreateInfo, host visible)
CreateImageLinear ==
    /\ CreateStep("create_image_linear", "imageLinear", "load_mesh")

\* reader.Valid()
ReaderValid(a) == a.mesh = "valid"

\* objShapes.size() == 1
OneShape(a) == a.shapes = 1

\* Where main goes after the OBJ load: the two asserts stop the run in a
\* build with asserts; objShapes[0] of an empty vector is undefined and may
\* crash or go on.
LoadMeshOutcomes(nd, a) ==
    IF ~(AssertPasses(nd, ReaderValid(a)) /\ AssertPasses(nd, OneShape(a)))
    THEN {"aborted"}
    ELSE IF a.shapes = 0 THEN {"aborted", "create_cmd_pool"}
    ELSE {"create_cmd_pool"}

\* reader.ParseFromFile(...); assert(reader.Valid()); assert(objShapes.size() == 1);
\* objShapes[0]; objVertices, objIndices
LoadMesh ==
    /\ pc = "load_mesh"
    /\ pc' \in LoadMeshOutcomes(ndebug, assets)
    /\ UNCHANGED << envState, hostLog, sbtStride, objState, sbtState, loopState, gpuState >>

\* vkCreateCommandPool(context, &cmdPoolInfo, nullptr, &cmdPool)
CreateCommandPool ==
    /\ CreateStep("create_cmd_pool", "cmdPool", "upload_begin")

(***************************************************************************)
(* Command buffers.  A command buffer is Unallocated, Recording, Pending   *)
(* (submitted, not started), Running (the GPU is executing it), Executed,  *)
(* and Freed.                                                              *)
(***************************************************************************)
\* A recorded command.
Cmd(op, arg) == [op |-> op, arg |-> arg]

\* AllocateAndBeginOneTimeCommandBuffer: vkAllocateCommandBuffers, vkBeginCommandBuffer
AllocateAndBeginOneTimeCommandBuffer(bufs, c) ==
    [bufs EXCEPT ![c] = [state |-> "Recording", commands |-> << >>]]

\* vkCmd*: append commands to a command buffer that is recording
Record(bufs, c, cmds) ==
    [bufs EXCEPT ![c].commands = bufs[c].commands \o cmds]

\* An end without the submit: the command buffer never reaches the queue.
EndAndSubmit_NotSubmitted(bufs, c) == bufs

\* vkEndCommandBuffer, vkQueueSubmit: first half of EndSubmitWaitAndFreeCommandBuffer
EndAndSubmit(bufs, c) == [bufs EXCEPT ![c].state = "Pending"]

\* A wait that returns at once, whatever the queue is doing.
QueueIdle_NoWait(bufs) == TRUE

\* A wait that returns as soon as the queue has started its work.
QueueIdle_StartedOnly(bufs) == \A c \in DOMAIN bufs : bufs[c].state # "Pending"

\* vkQueueWaitIdle(queue) returns once no submitted work is left on the queue
QueueIdle(bufs) == \A c \in CmdIds : bufs[c].state \notin {"Pending", "Running"}

\* vkFreeCommandBuffers(device, cmdPool, 1, &cmdBuffer)
FreeCommandBuffer(bufs, c) == [bufs EXCEPT ![c].state = "Freed"]

\* The two image barriers recorded into uploadCmdBuffer.
UploadBarriers ==
    << Cmd("ImageBarrier", [image |-> "image", oldLayout |-> "UNDEFINED", newLayout |-> "GENERAL"]),
       Cmd("ImageBarrier", [image |-> "imageLinear", oldLayout |-> "UNDEFINED",
                            newLayout |-> "TRANSFER_DST_OPTIMAL"]) >>

\* allocator.finalizeAndReleaseStaging()
FinalizeAndReleaseStaging(held) == {}

\* uploadCmdBuffer = AllocateAndBegin...; vertexBuffer, indexBuffer = createBuffer(...)
\* (each copies its data into a staging buffer and records the copy);
\* vkCmdPipelineBarrier(uploadCmdBuffer, ..., 2, imageBarriers)
UploadBegin ==
    /\ Goto("upload_begin", "upload_submit")
    /\ cmdBuf' = Record(AllocateAndBeginOneTimeCommandBuffer(cmdBuf, UploadCmd), UploadCmd,
                        << Cmd("CopyBuffer", [dst |-> "vertexBuffer"]),
                           Cmd("CopyBuffer", [dst |-> "indexBuffer"]) >> \o UploadBarriers)
    /\ live' = live \cup {"vertexBuffer", "indexBuffer"}
    /\ created' = created \o << "vertexBuffer", "indexBuffer" >>
    /\ staging' = staging \cup {"vertexBuffer", "indexBuffer"}
    /\ UNCHANGED << envState, outHdr, asBuilds, descriptorSet, writeLog, sbtStride,
                    destroyed, sbtState, loopState, gpuEffects >>

\* EndSubmitWaitAndFreeCommandBuffer(..., uploadCmdBuffer): end and submit
UploadSubmit ==
    /\ Goto("upload_submit", "upload_wait")
    /\ cmdBuf' = EndAndSubmit(cmdBuf, UploadCmd)
    /\ UNCHANGED << envState, hostLog, sbtStride, objState, sbtState, loopState, gpuEffects >>

\* ... wait for the queue, free; allocator.finalizeAndReleaseStaging()
UploadWaitFree ==
    /\ Goto("upload_wait", "build_blas")
    /\ QueueIdle(cmdBuf)
    /\ cmdBuf' = FreeCommandBuffer(cmdBuf, UploadCmd)
    /\ staging' = FinalizeAndReleaseStaging(staging)
    /\ UNCHANGED << envState, outHdr, asBuilds, descriptorSet, writeLog, sbtStride,
                    objState, sbtState, loopState, gpuEffects >>

(***************************************************************************)
(* The GPU queue.                                                          *)
(***************************************************************************)
RECURSIVE LayoutAfter(_, _)
\* The layout of `image` after the barriers of a command list have executed.
LayoutAfter(cmds, layout) ==
    IF cmds = << >> THEN layout
    ELSE LayoutAfter(Tail(cmds),
                     IF Head(cmds).op = "ImageBarrier" /\ Head(cmds).arg.image = "image"
                     THEN Head(cmds).arg.newLayout ELSE layout)

\* Number of trace-rays commands in a command list.
TraceCount(cmds) == Cardinality({k \in 1 .. Len(cmds) : cmds[k].op = "TraceRays"})

RECURSIVE Execute(_, _, _)
\* What the commands of a command list make visible, run in order after
\* `traces` dispatches have written `image`.  An image barrier on `image`
\* makes the dispatches before it available to transfers; the copy puts what
\* is available into the linear image; a fill puts its value into the
\* buffer; the transfer-to-host memory barrier makes the transfer's writes
\* readable by the host.
Execute(cmds, mem, traces) ==
    IF cmds = << >> THEN mem
    ELSE LET c == Head(cmds) IN
         Execute(Tail(cmds),
                 CASE c.op = "ImageBarrier" /\ c.arg.image = "image" ->
                          [mem EXCEPT !.transferVisible = traces]
                   [] c.op = "CopyImage" -> [mem EXCEPT !.transferDst = mem.transferVisible]
                   [] c.op = "FillBuffer" -> [mem EXCEPT !.transferDst = c.arg.data]
                   [] c.op = "MemoryBarrier" -> [mem EXCEPT !.hostVisible = mem.transferDst]
                   [] c.op = "CopyBuffer" -> [mem EXCEPT !.uploaded = @ \cup {c.arg.dst}]
                   [] OTHER -> mem,
                 IF c.op = "TraceRays" THEN traces + 1 ELSE traces)

\* The queue starts executing a submitted command buffer.
GpuStart ==
    /\ \E c \in CmdIds :
          /\ cmdBuf[c].state = "Pending"
          /\ cmdBuf' = [cmdBuf EXCEPT ![c].state = "Running"]
    /\ UNCHANGED << pc, envState, hostLog, sbtStride, objState, sbtState, loopState, gpuEffects >>

\* The queue finishes a command buffer: its commands have taken effect.
GpuFinish ==
    /\ \E c \in CmdIds :
          /\ cmdBuf[c].state = "Running"
          /\ cmdBuf' = [cmdBuf EXCEPT ![c].state = "Executed"]
          /\ imageLayout' = LayoutAfter(cmdBuf[c].commands, imageLayout)
          /\ gpuTraces' = gpuTraces + TraceCount(cmdBuf[c].commands)
          /\ gpuMem' = Execute(cmdBuf[c].commands, gpuMem, gpuTraces)
    /\ UNCHANGED << pc, envState, hostLog, sbtStride, objState, sbtState, loopState >>

(***************************************************************************)
(* Acceleration structures, descriptors, pipeline.                         *)
(***************************************************************************)
\* A blases vector into which the BlasInput was pushed twice.
Blases_PushedTwice ==
    << [vertexData |-> "vertexBuffer", indexData |-> "indexBuffer", flags |-> "OPAQUE"],
       [vertexData |-> "vertexBuffer", indexData |-> "indexBuffer", flags |-> "OPAQUE"] >>

\* std::vector<BlasInput> blases: one BlasInput over the vertex and index buffers
Blases ==
    << [vertexData |-> "vertexBuffer", indexData |-> "indexBuffer", flags |-> "OPAQUE"] >>

\* raytracingBuilder.setup(...); raytracingBuilder.buildBlas(blases, ...)
BuildBlas ==
    /\ Goto("build_blas", "create_instances")
    /\ Create("blas")
    /\ asBuilds' = Append(asBuilds, [kind |-> "blas", count |-> Len(Blases)])
    /\ UNCHANGED << envState, outHdr, staging, descriptorSet, writeLog, sbtStride,
                    sbtState, loopState, gpuState >>

\* the 21 x 21 instance loop
CreateInstances ==
    /\ Goto("create_instances", "build_tlas")
    /\ UNCHANGED << envState, hostLog, sbtStride, objState, sbtState, loopState, gpuState >>

\* raytracingBuilder.buildTlas(instances, ...)
BuildTlas ==
    /\ Goto("build_tlas", "descriptors")
    /\ Create("tlas")
    /\ asBuilds' = Append(asBuilds, [kind |-> "tlas", count |-> 1])
    /\ UNCHANGED << envState, outHdr, staging, descriptorSet, writeLog, sbtStride,
                    sbtState, loopState, gpuState >>

\* vkUpdateDescriptorSets with the four writes: image view, TLAS, vertex and index buffer
UpdateDescriptorSets(set) ==
    [set EXCEPT !.imageData = "imageView", !.tlas = "tlas",
                !.vertices = "vertexBuffer", !.indices = "indexBuffer"]

\* descriptorSetContainer: addBinding, initLayout, initPool, initPipeLayout, vkUpdateDescriptorSets
SetupDescriptors ==
    /\ Goto("descriptors", "load_shader")
    /\ Create("descriptorSetContainer")
    /\ descriptorSet' = UpdateDescriptorSets(descriptorSet)
    /\ writeLog' = Append(writeLog, "descriptorSet")
    /\ UNCHANGED << envState, outHdr, staging, asBuilds, sbtStride, sbtState, loopState,
                    gpuState >>

\* What comes of createShaderModule: with the binary missing loadFile
\* returns an empty string and the module is created from no code, which
\* is undefined and may crash or go on.
ShaderModuleOutcomes(a) == IF a.shader THEN {"create_pipeline"} ELSE {"create_pipeline", "aborted"}

\* rayGenModule = nvvk::createShaderModule(context, nvh::loadFile(...))
LoadShaderModule ==
    /\ pc = "load_shader"
    /\ \E outcome \in ShaderModuleOutcomes(assets) :
          /\ pc' = outcome
          /\ live' = IF outcome = "aborted" THEN live ELSE live \cup {"rayGenModule"}
          /\ created' = IF outcome = "aborted" THEN created ELSE Append(created, "rayGenModule")
    /\ UNCHANGED << envState, hostLog, sbtStride, destroyed, sbtState, loopState, gpuState >>

\* vkCreateRayTracingPipelinesKHR(..., &rtPipeline)
CreatePipeline ==
    /\ CreateStep("create_pipeline", "rtPipeline", "get_handles")

(***************************************************************************)
(* Shader binding table.                                                   *)
(***************************************************************************)
\* cpuShaderHandleStorage(sbtHeaderSize * groups.size()); vkGetRayTracingShaderGroupHandlesKHR
GetShaderGroupHandles ==
    /\ Goto("get_handles", "create_sbt")
    /\ cpuShaderHandleStorage' = GroupHandles(sbtHeaderSize, GroupCount)
    /\ UNCHANGED << envState, hostLog, sbtStride, objState, sbtBuffer, sbtStartAddress, regions,
                    loopState, gpuState >>

\* rtSBTBuffer = allocator.createBuffer(sbtSize, ...)
CreateSBTBuffer ==
    /\ Goto("create_sbt", "copy_handles")
    /\ sbtBuffer' = NewBuffer(SbtSize(sbtStride, GroupCount))
    /\ Create("rtSBTBuffer")
    /\ UNCHANGED << envState, hostLog, sbtStride, cpuShaderHandleStorage, sbtStartAddress, regions,
                    loopState, gpuState >>

\* map; the copy loop over all groups; unmap; finalizeAndReleaseStaging
CopyHandles ==
    /\ Goto("copy_handles", "setup_regions")
    /\ sbtBuffer' = CopyLoop(sbtBuffer, cpuShaderHandleStorage, 0, GroupCount,
                             sbtStride, sbtHeaderSize)
    /\ writeLog' = Append(writeLog, "sbtBuffer")
    /\ staging' = FinalizeAndReleaseStaging(staging)
    /\ UNCHANGED << envState, outHdr, asBuilds, descriptorSet, sbtStride, objState,
                    cpuShaderHandleStorage, sbtStartAddress,
                    regions, loopState, gpuState >>

\* sbtRayGenRegion: starts at the buffer, stride sbtStride, one record long
RayGenRegion(address, stride) ==
    [deviceAddress |-> address, stride |-> stride, size |-> stride]

\* A copy of the ray-generation region whose size is left as it was.
EmptyRegion_KeepSize(region) == region

\* sbtMissRegion = sbtRayGenRegion; sbtMissRegion.size = 0  (likewise hit, callable)
EmptyRegion(region) == [region EXCEPT !.size = 0]

\* sbtStartAddress = GetBufferDeviceAddress(context, rtSBTBuffer.buffer); the four regions
SetupRegions ==
    /\ Goto("setup_regions", "batch_begin")
    /\ \E address \in DeviceAddresses :
          /\ sbtStartAddress' = address
          /\ LET rayGen == RayGenRegion(address, sbtStride) IN
             regions' = [raygen |-> rayGen, miss |-> EmptyRegion(rayGen),
                         hit |-> EmptyRegion(rayGen), callable |-> EmptyRegion(rayGen)]
    /\ UNCHANGED << envState, hostLog, sbtStride, objState, cpuShaderHandleStorage, sbtBuffer,
                    loopState, gpuState >>

(***************************************************************************)
(* The sample batch loop.                                                  *)
(***************************************************************************)
\* The push constants a trace-rays command recorded at the end of cmds would
\* see: those of the last vkCmdPushConstants in the same command buffer
\* (-1 when there is none).
PushedBatch(cmds) ==
    LET pushes == {k \in 1 .. Len(cmds) : cmds[k].op = "PushConstants"} IN
    IF pushes = {} THEN -1
    ELSE cmds[CHOOSE k \in pushes : \A j \in pushes : j <= k].arg.sample_batch

\* An assignment that leaves the global push constants as they were.
SetSampleBatch_Stale(constants, batch) == constants

\* pushConstants.sample_batch = sampleBatch
SetSampleBatch(constants, batch) == [constants EXCEPT !.sample_batch = batch]

\* for(...; sampleBatch++)
NextSampleBatch(batch) == batch + 1

\* A descriptor set that changes from batch to batch.
BatchDescriptorSet_PerBatch(batch) == batch

\* descriptorSetContainer.getSet(0): the set every batch binds
BatchDescriptorSet(batch) == 0

\* A test that takes every sample batch for the last one.
IsLastBatch_Every(batch) == TRUE

\* if(sampleBatch == NUM_SAMPLE_BATCHES - 1)
IsLastBatch(batch) == batch = NUM_SAMPLE_BATCHES - 1

\* Readback commands that end with the copy: no transfer-to-host barrier.
ReadbackCommands_NoHostBarrier ==
    << Cmd("ImageBarrier", [image |-> "image", oldLayout |-> "GENERAL",
                            newLayout |-> "TRANSFER_SRC_OPTIMAL"]),
       Cmd("CopyImage", [src |-> "image", dst |-> "imageLinear"]) >>

\* The barrier, copy and barrier recorded on the last sample batch.
ReadbackCommands ==
    << Cmd("ImageBarrier", [image |-> "image", oldLayout |-> "GENERAL",
                            newLayout |-> "TRANSFER_SRC_OPTIMAL"]),
       Cmd("CopyImage", [src |-> "image", dst |-> "imageLinear"]),
       Cmd("MemoryBarrier", [srcAccess |-> "TRANSFER_WRITE", dstAccess |-> "HOST_READ"]) >>

\* loop test; cmdBuffer = AllocateAndBeginOneTimeCommandBuffer(context, cmdPool)
BatchBegin ==
    /\ pc = "batch_begin"
    /\ IF sampleBatch < NUM_SAMPLE_BATCHES
       THEN /\ pc' = "batch_record"
            /\ cmdBuf' = AllocateAndBeginOneTimeCommandBuffer(cmdBuf, sampleBatch)
       ELSE /\ pc' = "readback"
            /\ UNCHANGED cmdBuf
    /\ UNCHANGED << envState, hostLog, sbtStride, objState, sbtState, loopState, gpuEffects >>

\* vkCmdBindPipeline, vkCmdBindDescriptorSets, vkCmdPushConstants of a batch
BatchState(batch, constants) ==
    << Cmd("BindPipeline", [pipeline |-> "rtPipeline"]),
       Cmd("BindDescriptorSets", [set |-> BatchDescriptorSet(batch)]),
       Cmd("PushConstants", constants) >>

\* Everything a batch records: state, vkCmdTraceRaysKHR, and on the last
\* sample batch the readback commands
BatchCommands(batch, constants, regs) ==
    BatchState(batch, constants) \o << Cmd("TraceRays", regs) >>
        \o (IF IsLastBatch(batch) THEN ReadbackCommands ELSE << >>)

\* bind pipeline and descriptor set, push constants, trace rays, and on the
\* last sample batch the readback commands
BatchRecord ==
    /\ Goto("batch_record", "batch_submit")
    /\ pushConstants' = SetSampleBatch(pushConstants, sampleBatch)
    /\ LET state == BatchState(sampleBatch, pushConstants')
       IN /\ cmdBuf' = Record(cmdBuf, sampleBatch,
                              BatchCommands(sampleBatch, pushConstants', regions))
          /\ traceLog' = Append(traceLog,
                                [cmd |-> sampleBatch,
                                 sample_batch |-> PushedBatch(cmdBuf[sampleBatch].commands \o state),
                                 raygen |-> regions.raygen, miss |-> regions.miss,
                                 hit |-> regions.hit, callable |-> regions.callable])
    /\ UNCHANGED << envState, hostLog, sbtStride, objState, sbtState, sampleBatch, gpuEffects >>

\* EndSubmitWaitAndFreeCommandBuffer(..., cmdBuffer): end and submit
BatchSubmit ==
    /\ Goto("batch_submit", "batch_wait")
    /\ cmdBuf' = EndAndSubmit(cmdBuf, sampleBatch)
    /\ UNCHANGED << envState, hostLog, sbtStride, objState, sbtState, loopState, gpuEffects >>

\* ... wait for the queue, free; nvprintf; sampleBatch++
BatchWaitFree ==
    /\ Goto("batch_wait", "batch_begin")
    /\ QueueIdle(cmdBuf)
    /\ cmdBuf' = FreeCommandBuffer(cmdBuf, sampleBatch)
    /\ sampleBatch' = NextSampleBatch(sampleBatch)
    /\ UNCHANGED << envState, hostLog, sbtStride, objState, sbtState, pushConstants, traceLog,
                    gpuEffects >>

(***************************************************************************)
(* Readback and teardown.                                                  *)
(***************************************************************************)
\* What the host reads through a mapping of the transfer's destination.
HostRead(mem) == mem.hostVisible

\* allocator.map(imageLinear); stbi_write_hdr("out.hdr", ...); allocator.unmap(imageLinear)
Readback ==
    /\ Goto("readback", "teardown")
    /\ outHdr' = Append(outHdr, HostRead(gpuMem))
    /\ UNCHANGED << envState, staging, asBuilds, descriptorSet, writeLog, sbtStride,
                    objState, sbtState, loopState, gpuState >>

\* A teardown that forgets vkDestroyCommandPool.
TeardownOrder_NoCommandPool ==
    << "rtSBTBuffer", "rtPipeline", "rayGenModule", "descriptorSetContainer",
       "raytracingBuilder", "vertexBuffer", "indexBuffer", "imageLinear",
       "imageView", "image", "allocator", "context" >>

\* The destroy calls at the end of main(), in order.
TeardownOrder ==
    << "rtSBTBuffer", "rtPipeline", "rayGenModule", "descriptorSetContainer",
       "raytracingBuilder", "vertexBuffer", "indexBuffer", "cmdPool", "imageLinear",
       "imageView", "image", "allocator", "context" >>

\* The objects a destroy call releases.
Released(name) == IF name = "raytracingBuilder" THEN {"blas", "tlas"} ELSE {name}

\* the next destroy call of the teardown
Destroy ==
    /\ pc = "teardown"
    /\ Len(destroyed) < Len(TeardownOrder)
    /\ LET name == TeardownOrder[Len(destroyed) + 1] IN
          /\ destroyed' = Append(destroyed, name)
          /\ live' = live \ Released(name)
    /\ UNCHANGED << pc, envState, hostLog, sbtStride, created, sbtState, loopState, gpuState >>

\* return from main()
Exit ==
    /\ Goto("teardown", "done")
    /\ Len(destroyed) = Len(TeardownOrder)
    /\ UNCHANGED << envState, hostLog, sbtStride, objState, sbtState, loopState, gpuState >>

Next ==
    \/ ContextInit
    \/ QueryProperties
    \/ AssertAlignment
    \/ ComputeStride
    \/ AssertStride
    \/ CreateAllocator
    \/ CreateImage
    \/ CreateImageView
    \/ CreateImageLinear
    \/ LoadMesh
    \/ CreateCommandPool
    \/ UploadBegin
    \/ UploadSubmit
    \/ UploadWaitFree
    \/ GpuStart
    \/ GpuFinish
    \/ BuildBlas
    \/ CreateInstances
    \/ BuildTlas
    \/ SetupDescriptors
    \/ LoadShaderModule
    \/ CreatePipeline
    \/ GetShaderGroupHandles
    \/ CreateSBTBuffer
    \/ CopyHandles
    \/ SetupRegions
    \/ BatchBegin
    \/ BatchRecord
    \/ BatchSubmit
    \/ BatchWaitFree
    \/ Readback
    \/ Destroy
    \/ Exit

Spec == Init /\ [][Next]_vars

(***************************************************************************)
(* The buffer-fill checkpoint (unnamed/part_001): one command buffer that  *)
(* fills a host-visible buffer, a transfer-to-host barrier, submit, wait,  *)
(* map and print.  It uses the same Vulkan objects as main() above, so it  *)
(* is written over the same variables and shares the GPU queue actions.    *)
(***************************************************************************)
\* fillValueU32: the bits of 0.5f
FillValueU32 == 1056964608

\* The one command buffer of the checkpoint.
FillCmd == 0

\* vkCmdFillBuffer(cmdBuffer, buffer.buffer, 0, bufferSizeBytes, fillValueU32);
\* vkCmdPipelineBarrier(cmdBuffer, TRANSFER, HOST, 0, 1, &memoryBarrier, ...)
FillCommands ==
    << Cmd("FillBuffer", [dst |-> "buffer", data |-> FillValueU32]),
       Cmd("MemoryBarrier", [srcAccess |-> "TRANSFER_WRITE", dstAccess |-> "HOST_READ"]) >>

InitFill ==
    /\ pc = "fill_setup"
    /\ ndebug = FALSE
    /\ assets = GoodAssets
    /\ dev = [shaderGroupHandleSize |-> 0, shaderGroupBaseAlignment |-> 1,
              shaderGroupHandleAlignment |-> 1, maxShaderGroupStride |-> 0]
    /\ NothingCreated

\* context.init; allocator.init; buffer = allocator.createBuffer(...); vkCreateCommandPool
FillSetup ==
    /\ Goto("fill_setup", "fill_begin")
    /\ live' = live \cup {"context", "allocator", "buffer", "cmdPool"}
    /\ created' = created \o << "context", "allocator", "buffer", "cmdPool" >>
    /\ UNCHANGED << envState, hostLog, sbtStride, destroyed, sbtState, loopState, gpuState >>

\* vkAllocateCommandBuffers; vkBeginCommandBuffer
FillBegin ==
    /\ Goto("fill_begin", "fill_record")
    /\ cmdBuf' = AllocateAndBeginOneTimeCommandBuffer(cmdBuf, FillCmd)
    /\ UNCHANGED << envState, hostLog, sbtStride, objState, sbtState, loopState, gpuEffects >>

\* vkCmdFillBuffer; vkCmdPipelineBarrier
FillRecord ==
    /\ Goto("fill_record", "fill_submit")
    /\ cmdBuf' = Record(cmdBuf, FillCmd, FillCommands)
    /\ UNCHANGED << envState, hostLog, sbtStride, objState, sbtState, loopState, gpuEffects >>

\* vkEndCommandBuffer; vkQueueSubmit
FillSubmit ==
    /\ Goto("fill_submit", "fill_wait")
    /\ cmdBuf' = EndAndSubmit(cmdBuf, FillCmd)
    /\ UNCHANGED << envState, hostLog, sbtStride, objState, sbtState, loopState, gpuEffects >>

\* vkQueueWaitIdle(context.m_queueGCT)
FillWaitIdle ==
    /\ Goto("fill_wait", "fill_map")
    /\ QueueIdle(cmdBuf)
    /\ UNCHANGED << envState, hostLog, sbtStride, objState, sbtState, loopState, gpuState >>

\* data = allocator.map(buffer); printf(first three elements); allocator.unmap(buffer)
FillMapRead ==
    /\ Goto("fill_map", "fill_tidy")
    /\ printed' = Append(printed, HostRead(gpuMem))
    /\ UNCHANGED << buildEnv, hostLog, sbtStride, objState, sbtState, loopState, gpuState >>

\* vkFreeCommandBuffers; vkDestroyCommandPool; allocator.destroy(buffer); deinit; deinit
FillTidyUp ==
    /\ Goto("fill_tidy", "fill_done")
    /\ cmdBuf' = FreeCommandBuffer(cmdBuf, FillCmd)
    /\ destroyed' = destroyed \o << "cmdPool", "buffer", "allocator", "context" >>
    /\ live' = {}
    /\ UNCHANGED << envState, hostLog, sbtStride, created, sbtState, loopState, gpuEffects >>

\* A run of either program: main() of the ray tracing checkpoint, or main()
\* of the buffer-fill checkpoint.
InitReadback == Init \/ InitFill

NextReadback ==
    \/ Next
    \/ FillSetup
    \/ FillBegin
    \/ FillRecord
    \/ FillSubmit
    \/ FillWaitIdle
    \/ FillMapRead
    \/ FillTidyUp

SpecReadback == InitReadback /\ [][NextReadback]_vars

(***************************************************************************)
(* SpecAssets: main() run against every combination of mesh file and       *)
(* shader binary it may find: the mesh file missing, malformed, or valid   *)
(* with any number of shapes; the shader binary missing or present.        *)
(***************************************************************************)

\* What nvh::findFile / tinyobj and nvh::loadFile may find on disk.  A
\* reader that is not valid has no shapes.
AssetSets ==
    {[mesh |-> m, shapes |-> n, shader |-> sh] :
        m \in {"missing", "malformed"}, n \in {0}, sh \in BOOLEAN}
    \cup {[mesh |-> m, shapes |-> n, shader |-> sh] :
        m \in {"valid"}, n \in 0 .. MaxShapes, sh \in BOOLEAN}

\* Device limits that pass both SBT asserts.
SupportedDevice ==
    [shaderGroupHandleSize |-> 1, shaderGroupBaseAlignment |-> 1,
     shaderGroupHandleAlignment |-> 1, maxShaderGroupStride |-> MaxStrideLimit]

InitAssets ==
    /\ pc = "context_init"
    /\ ndebug \in BOOLEAN
    /\ assets \in AssetSets
    /\ dev = SupportedDevice
    /\ NothingCreated

SpecAssets == InitAssets /\ [][Next]_vars

(***************************************************************************)
(* Properties of Spec.                                                     *)
(***************************************************************************)
\* The sample batches.
Batches == 0 .. (NUM_SAMPLE_BATCHES - 1)

(* C4: a run in which the device limits fail one of the two SBT checks     *)
(* (baseAlignment not a multiple of handleAlignment, or stride above       *)
(* maxShaderGroupStride) stops at the check: nothing is created after the  *)
(* context and no trace-rays is recorded unless both checks hold.          *)
C4_FailedCheckStopsRun ==
    (Len(created) > 1 \/ traceLog # << >>)
        => /\ AlignmentOk(sbtBaseAlignment, sbtHandleAlignment)
           /\ StrideOk(sbtStride, dev.maxShaderGroupStride)

(* C6: every trace-rays call is given the ray-generation region            *)
(* {SBT start address, sbtStride, size sbtStride} and miss, hit and        *)
(* callable regions with the same address and stride and size 0.           *)
C6_RegionsAtEveryTrace ==
    \A k \in 1 .. Len(traceLog) :
        /\ traceLog[k].raygen =
              [deviceAddress |-> sbtStartAddress, stride |-> sbtStride, size |-> sbtStride]
        /\ \A r \in {traceLog[k].miss, traceLog[k].hit, traceLog[k].callable} :
              r = [deviceAddress |-> sbtStartAddress, stride |-> sbtStride, size |-> 0]

C6_Witness ==
    /\ Len(traceLog) = NUM_SAMPLE_BATCHES
    /\ sbtStride = 4
    /\ traceLog[NUM_SAMPLE_BATCHES].raygen.size = 4
    /\ traceLog[NUM_SAMPLE_BATCHES].hit.size = 0

(* C9: the k-th trace-rays call of a run (from 0) is recorded after a      *)
(* push-constant write in the same command buffer whose sample_batch is k; *)
(* there are never more than NUM_SAMPLE_BATCHES calls, and exactly that    *)
(* many once the loop has been left.                                       *)
C9_PushedBatchSequence ==
    /\ Len(traceLog) <= NUM_SAMPLE_BATCHES
    /\ \A k \in 1 .. Len(traceLog) : traceLog[k].sample_batch = k - 1
    /\ pc \in {"readback", "teardown", "done"} => Len(traceLog) = NUM_SAMPLE_BATCHES

C9_Witness ==
    /\ pc = "done"
    /\ Len(traceLog) = NUM_SAMPLE_BATCHES
    /\ traceLog[1].sample_batch = 0
    /\ traceLog[NUM_SAMPLE_BATCHES].sample_batch = NUM_SAMPLE_BATCHES - 1

\* The state of a batch in the terms of the dispatch loop's state machine.
BatchPhase(bufs, b) ==
    CASE bufs[b].state = "Unallocated" -> "Idle"
      [] bufs[b].state = "Recording" -> "Recording"
      [] bufs[b].state \in {"Pending", "Running", "Executed"} -> "Submitted"
      [] bufs[b].state = "Freed" -> "Complete"

\* Command buffers that are recording or in flight.
InFlight(bufs) ==
    {c \in CmdIds : bufs[c].state \in {"Recording", "Pending", "Running", "Executed"}}

\* A batch has begun only if the one before it was executed by the GPU and freed.
BatchesDoNotOverlap ==
    \A b \in Batches :
        (b + 1 \in Batches /\ cmdBuf[b + 1].state # "Unallocated")
            => /\ cmdBuf[b].state = "Freed"
               /\ gpuTraces >= b + 1

\* A batch changes phase only along Idle -> Recording -> Submitted -> Complete.
BatchPhaseStep ==
    \A b \in Batches :
        BatchPhase(cmdBuf', b) # BatchPhase(cmdBuf, b)
            => << BatchPhase(cmdBuf, b), BatchPhase(cmdBuf', b) >> \in
                  { << "Idle", "Recording" >>, << "Recording", "Submitted" >>,
                    << "Submitted", "Complete" >> }

(* C10: each batch passes through Idle, Recording, Submitted, Complete in  *)
(* that order; batch i+1 begins only after batch i has been submitted,     *)
(* executed, waited for and freed; at most one command buffer is           *)
(* recording or in flight at any moment.                                   *)
C10_BatchesSequential ==
    /\ [](BatchesDoNotOverlap /\ Cardinality(InFlight(cmdBuf)) <= 1)
    /\ [][BatchPhaseStep]_vars

C10_Witness ==
    /\ cmdBuf[0].state = "Freed"
    /\ cmdBuf[1].state = "Running"
    /\ cmdBuf[2].state = "Unallocated"
    /\ gpuTraces = 1

\* The operations of a command list, in order.
Ops(cmds) == [k \in 1 .. Len(cmds) |-> cmds[k].op]

\* The commands of a command list that come before its first trace-rays.
BeforeTrace(cmds) ==
    LET traces == {k \in 1 .. Len(cmds) : cmds[k].op = "TraceRays"} IN
    IF traces = {} THEN cmds
    ELSE SubSeq(cmds, 1, (CHOOSE k \in traces : \A j \in traces : k <= j) - 1)

\* What every sample batch records, and what only the last one adds.
DispatchOps == << "BindPipeline", "BindDescriptorSets", "PushConstants", "TraceRays" >>
ReadbackOps == << "ImageBarrier", "CopyImage", "MemoryBarrier" >>

\* Number of batches whose command buffer holds a command copying `image`.
ReadbackCount ==
    Cardinality({b \in Batches :
                    \E k \in 1 .. Len(cmdBuf[b].commands) :
                        cmdBuf[b].commands[k].op = "CopyImage"})

(* C11: the readback sequence (image barrier GENERAL ->                     *)
(* TRANSFER_SRC_OPTIMAL, copy of the image into the linear image, memory   *)
(* barrier transfer-write -> host-read) is recorded once per run, in the   *)
(* last batch only, after its trace-rays and in that order; the other      *)
(* batches record only bind, bind, push constants, trace rays; and the     *)
(* image is in GENERAL layout whenever the GPU runs a trace-rays dispatch. *)
C11_ReadbackOnlyInLastBatch ==
    /\ \A b \in Batches :
          cmdBuf[b].state \notin {"Unallocated", "Recording"}
              => /\ Ops(cmdBuf[b].commands) =
                       IF b = NUM_SAMPLE_BATCHES - 1 THEN DispatchOps \o ReadbackOps
                       ELSE DispatchOps
                 /\ b = NUM_SAMPLE_BATCHES - 1
                       => /\ cmdBuf[b].commands[5].arg =
                                [image |-> "image", oldLayout |-> "GENERAL",
                                 newLayout |-> "TRANSFER_SRC_OPTIMAL"]
                          /\ cmdBuf[b].commands[6].arg = [src |-> "image", dst |-> "imageLinear"]
                          /\ cmdBuf[b].commands[7].arg =
                                [srcAccess |-> "TRANSFER_WRITE", dstAccess |-> "HOST_READ"]
    /\ \A b \in Batches :
          cmdBuf[b].state = "Running"
              => LayoutAfter(BeforeTrace(cmdBuf[b].commands), imageLayout) = "GENERAL"
    /\ ReadbackCount <= 1
    /\ pc \in {"readback", "teardown", "done"} => ReadbackCount = 1

C11_Witness ==
    /\ pc = "done"
    /\ Len(cmdBuf[0].commands) = 4
    /\ Len(cmdBuf[NUM_SAMPLE_BATCHES - 1].commands) = 7
    /\ imageLayout = "TRANSFER_SRC_OPTIMAL"
    /\ ReadbackCount = 1

(* C12: out.hdr is written once, and only after all batches are Complete:  *)
(* the host maps the linear image after every one of the 32 command        *)
(* buffers was executed, waited for and freed; the copy into the linear    *)
(* image saw the writes of all 32 finished dispatches (it follows the      *)
(* image barrier) and the host reads exactly what the copy wrote (the      *)
(* transfer-to-host barrier was recorded and the submission waited for).   *)
(* In the buffer-fill checkpoint the host prints once, after fill,         *)
(* barrier, submit and wait, and reads the fill value.                     *)
C12_HostReadsAfterCompletion ==
    /\ Len(outHdr) <= 1 /\ Len(printed) <= 1
    /\ pc \in {"teardown", "done"} => Len(outHdr) = 1
    /\ pc \in {"fill_tidy", "fill_done"} => Len(printed) = 1
    /\ gpuMem.transferDst \in {Undef, NUM_SAMPLE_BATCHES, FillValueU32}
    /\ outHdr # << >>
          => /\ \A b \in Batches : cmdBuf[b].state = "Freed"
             /\ gpuTraces = NUM_SAMPLE_BATCHES
             /\ Ops(cmdBuf[NUM_SAMPLE_BATCHES - 1].commands) = DispatchOps \o ReadbackOps
             /\ outHdr[1] = NUM_SAMPLE_BATCHES
    /\ printed # << >>
          => /\ Ops(cmdBuf[FillCmd].commands) = << "FillBuffer", "MemoryBarrier" >>
             /\ cmdBuf[FillCmd].state \in {"Executed", "Freed"}
             /\ printed[1] = FillValueU32

C12_Witness ==
    /\ pc = "teardown"
    /\ outHdr = << NUM_SAMPLE_BATCHES >>
    /\ gpuMem.transferDst = NUM_SAMPLE_BATCHES
    /\ gpuMem.hostVisible = NUM_SAMPLE_BATCHES
    /\ destroyed = << >>

(* C14: a run issues one BLAS build, over one BlasInput, and then one     *)
(* TLAS build, in that order, and no further build up to the end of main. *)
C14_OneBlasBuildThenOneTlasBuild ==
    LET blasBuild == [kind |-> "blas", count |-> 1]
        tlasBuild == [kind |-> "tlas", count |-> 1]
    IN /\ asBuilds \in {<< >>, << blasBuild >>, << blasBuild, tlasBuild >>}
       /\ pc = "create_instances" => asBuilds = << blasBuild >>
       /\ "tlas" \in {created[k] : k \in 1 .. Len(created)}
             => asBuilds = << blasBuild, tlasBuild >>
       /\ pc = "done" => asBuilds = << blasBuild, tlasBuild >>

C14_Witness ==
    /\ pc = "done"
    /\ Len(asBuilds) = 2
    /\ asBuilds[1].kind = "blas" /\ asBuilds[2].kind = "tlas"
    /\ gpuTraces = NUM_SAMPLE_BATCHES

\* The destroy call that releases an object.
ReleasedBy(obj) == IF obj \in {"blas", "tlas"} THEN "raytracingBuilder" ELSE obj

\* The destroy calls made so far.
DestroyCalls == {destroyed[k] : k \in 1 .. Len(destroyed)}

(* C17: resources are released in strict reverse order of creation: if A   *)
(* was created before B, B is destroyed before A, so whenever A has been   *)
(* destroyed every resource created after A has been destroyed too.        *)
C17_ReverseCreationOrder ==
    \A i, j \in 1 .. Len(created) :
        (i < j /\ ReleasedBy(created[i]) # ReleasedBy(created[j])
               /\ ReleasedBy(created[i]) \in DestroyCalls)
            => ReleasedBy(created[j]) \in DestroyCalls

\* finalizeAndReleaseStaging has released the staging buffers of the upload.
UploadStagingReleased ==
    staging = {} /\ "vertexBuffer" \in {created[k] : k \in 1 .. Len(created)}

(* C18: the staging memory of the geometry upload is released only after   *)
(* the upload command buffer was ended, submitted, executed by the queue   *)
(* and waited for; while the upload may still run the staging buffers are  *)
(* held.                                                                   *)
C18_StagingReleasedAfterUpload ==
    /\ UploadStagingReleased
          => /\ cmdBuf[UploadCmd].state = "Freed"
             /\ Ops(cmdBuf[UploadCmd].commands) =
                   << "CopyBuffer", "CopyBuffer", "ImageBarrier", "ImageBarrier" >>
             /\ gpuMem.uploaded = {"vertexBuffer", "indexBuffer"}
    /\ cmdBuf[UploadCmd].state \in {"Recording", "Pending", "Running", "Executed"}
          => staging = {"vertexBuffer", "indexBuffer"}

C18_Witness ==
    /\ pc = "build_blas"
    /\ staging = {}
    /\ cmdBuf[UploadCmd].state = "Freed"
    /\ gpuMem.uploaded = {"vertexBuffer", "indexBuffer"}

\* The host is in the sample batch loop.
InBatchLoop == pc \in {"batch_begin", "batch_record", "batch_submit", "batch_wait"}

\* What setup leaves behind: the descriptor writes, then the SBT copy.
SetupWrites == << "descriptorSet", "sbtBuffer" >>

(* C19: while the host is in the batch loop nothing changes the SBT        *)
(* buffer, the four regions, the descriptor set's bindings or any object   *)
(* (pipeline, layout); the descriptor writes and the SBT copy each happen  *)
(* once, during setup; every batch binds the same pipeline and the same    *)
(* descriptor set.                                                         *)
C19_LoopLeavesSetupUnchanged ==
    /\ [][InBatchLoop => UNCHANGED << sbtBuffer, regions, descriptorSet, writeLog, sbtStride,
                                      sbtStartAddress, cpuShaderHandleStorage, objState >>]_vars
    /\ [](/\ \E n \in 0 .. 2 : writeLog = SubSeq(SetupWrites, 1, n)
          /\ (InBatchLoop \/ pc \in {"readback", "teardown", "done"})
                => /\ writeLog = SetupWrites
                   /\ descriptorSet = UpdateDescriptorSets(NoBindings)
          /\ InBatchLoop => {"rtPipeline", "descriptorSetContainer", "rtSBTBuffer"} \subseteq live
          /\ \A b \in Batches :
                Len(cmdBuf[b].commands) >= 2
                    => /\ cmdBuf[b].commands[1] = Cmd("BindPipeline", [pipeline |-> "rtPipeline"])
                       /\ cmdBuf[b].commands[2] = Cmd("BindDescriptorSets", [set |-> 0]))

C19_Witness ==
    /\ pc = "readback"
    /\ writeLog = SetupWrites
    /\ descriptorSet.tlas = "tlas"
    /\ cmdBuf[0].commands[2].arg.set = 0
    /\ cmdBuf[NUM_SAMPLE_BATCHES - 1].commands[2].arg.set = 0
    /\ pushConstants.sample_batch = NUM_SAMPLE_BATCHES - 1

\* The mesh file or the shader binary of the run is not usable.
AssetError(a) == ~ReaderValid(a) \/ ~OneShape(a) \/ ~a.shader

\* The GPU resources of main().
GpuResources ==
    {"image", "imageView", "imageLinear", "cmdPool", "vertexBuffer", "indexBuffer",
     "blas", "tlas", "descriptorSetContainer", "rayGenModule", "rtPipeline", "rtSBTBuffer"}

(* C21: when the mesh file is missing or malformed or does not hold        *)
(* exactly one shape, or the shader binary is missing, no GPU resource     *)
(* (image, image view, buffer, command pool, acceleration structure,       *)
(* descriptor set) is ever created: the run aborts before.                 *)
C21_AssetErrorBeforeGpuResources ==
    AssetError(assets)
        => /\ \A k \in 1 .. Len(created) : created[k] \notin GpuResources
           /\ pc \notin {"batch_begin", "batch_record", "batch_submit", "batch_wait",
                         "readback", "teardown", "done"}

\* The objects created so far.
CreatedSet == {created[k] : k \in 1 .. Len(created)}

\* The objects the commands of a command buffer work on.
UsedBy(c) ==
    IF c = UploadCmd
    THEN {"cmdPool", "vertexBuffer", "indexBuffer", "image", "imageLinear"}
    ELSE {"cmdPool", "rtPipeline", "descriptorSetContainer", "rtSBTBuffer", "tlas", "blas",
          "vertexBuffer", "indexBuffer", "image", "imageView", "imageLinear"}

(* C24: every GPU object is used only between its creation and its        *)
(* destruction, in data-flow order: the upload has been submitted,         *)
(* executed and waited for before buildBlas; the BLAS exists before the    *)
(* TLAS and the TLAS before the descriptor write; the pipeline exists      *)
(* before its handles are queried; regions, descriptor set and pipeline    *)
(* are complete before a batch records its dispatch; every object a        *)
(* command buffer works on is live while the buffer is recorded or on the  *)
(* queue; and nothing is destroyed before the last batch has completed.    *)
C24_UseBetweenCreationAndDestruction ==
    /\ live \subseteq CreatedSet
    /\ "blas" \in CreatedSet
          => /\ cmdBuf[UploadCmd].state = "Freed"
             /\ gpuMem.uploaded = {"vertexBuffer", "indexBuffer"}
    /\ "tlas" \in CreatedSet => "blas" \in CreatedSet
    /\ descriptorSet # NoBindings
          => /\ {"tlas", "imageView", "vertexBuffer", "indexBuffer"} \subseteq CreatedSet
             /\ descriptorSet = UpdateDescriptorSets(NoBindings)
    /\ cpuShaderHandleStorage # << >> => "rtPipeline" \in CreatedSet
    /\ sbtBuffer # << >> => "rtSBTBuffer" \in CreatedSet
    /\ \A b \in Batches :
          cmdBuf[b].state # "Unallocated"
              => /\ writeLog = SetupWrites
                 /\ regions.raygen = RayGenRegion(sbtStartAddress, sbtStride)
                 /\ sbtStartAddress \in DeviceAddresses
                 /\ "rtPipeline" \in CreatedSet
    /\ \A c \in CmdIds :
          cmdBuf[c].state \in {"Recording", "Pending", "Running"} => UsedBy(c) \subseteq live
    /\ destroyed # << >>
          => /\ gpuTraces = NUM_SAMPLE_BATCHES
             /\ \A c \in CmdIds : cmdBuf[c].state = "Freed"

C24_Witness ==
    /\ pc = "teardown"
    /\ Len(destroyed) = 5
    /\ "tlas" \notin live
    /\ "vertexBuffer" \in live
    /\ gpuTraces = NUM_SAMPLE_BATCHES

(* C26: on the error-free path every object main creates is released      *)
(* exactly once before main returns and nothing is released twice: each    *)
(* command buffer is freed right after its wait and stays freed, every     *)
(* destroy call is made once and only for an object that was created, an   *)
(* object is live exactly until its destroy call, and no object is live    *)
(* and no command buffer unfreed when main returns.                        *)
C26_ReleasedExactlyOnce ==
    /\ [][\A c \in CmdIds : cmdBuf[c].state = "Freed" => cmdBuf'[c].state = "Freed"]_vars
    /\ [][\A k \in 1 .. Len(destroyed) : Len(destroyed') >= k /\ destroyed'[k] = destroyed[k]]_vars
    /\ [](/\ \A i, j \in 1 .. Len(destroyed) : destroyed[i] = destroyed[j] => i = j
          /\ \A i, j \in 1 .. Len(created) : created[i] = created[j] => i = j
          /\ DestroyCalls \subseteq {ReleasedBy(obj) : obj \in CreatedSet}
          /\ \A obj \in CreatedSet : obj \in live <=> ReleasedBy(obj) \notin DestroyCalls
          /\ Cardinality({c \in CmdIds : cmdBuf[c].state \notin {"Unallocated", "Freed"}}) <= 1
          /\ pc \in {"build_blas", "readback", "teardown", "done"}
                => \A c \in CmdIds : cmdBuf[c].state \in {"Unallocated", "Freed"}
          /\ pc = "done"
                => /\ live = {}
                   /\ Len(created) = 14
                   /\ \A obj \in CreatedSet : ReleasedBy(obj) \in DestroyCalls
                   /\ \A c \in CmdIds : cmdBuf[c].state = "Freed")

C26_Witness ==
    /\ pc = "done"
    /\ live = {}
    /\ Len(created) = 14
    /\ Len(destroyed) = 13
    /\ cmdBuf[UploadCmd].state = "Freed"
    /\ cmdBuf[NUM_SAMPLE_BATCHES - 1].state = "Freed"

(***************************************************************************)
(* SpecScene: the acceleration structures of main() (main.cpp 261-328)     *)
(* with the instance list in full, followed by the SBT regions and the     *)
(* first trace-rays call (main.cpp 482-530).  The instance loop is taken   *)
(* one instance at a time.  An instance's transform is kept as its grid    *)
(* translation; the two rotations, drawn from a default-seeded             *)
(* std::default_random_engine, are left out.                               *)
(***************************************************************************)
\* for(int x = -10; x <= 10; x++) for(int y = -10; y <= 10; y++)
GridMin == -10
GridMax == 10

\* A loop test that stops one short.
GridContinue_Exclusive(v) == v < GridMax

\* x <= 10, y <= 10
GridContinue(v) == v <= GridMax

\* raytracingBuilder right after setup(): nothing built.
EmptyBuilder == [blas |-> << >>, tlas |-> << >>]

\* A buildBlas that returns without having built anything.
BuildBlasResult_NothingBuilt(builder, blases, address) == builder

\* raytracingBuilder.buildBlas(blases, flags): when it returns, one BLAS per
\* BlasInput exists, at device addresses the driver chose.
BuildBlasResult(builder, blases, address) ==
    [builder EXCEPT !.blas = [k \in 1 .. Len(blases) |->
                                [input |-> blases[k], address |-> address + (k - 1)]]]

\* raytracingBuilder.getBlasDeviceAddress(blasId): the address of a built
\* BLAS; 0 (no acceleration structure) when BLAS blasId has not been built.
GetBlasDeviceAddress(builder, blasId) ==
    IF (blasId + 1) \in DOMAIN builder.blas THEN builder.blas[blasId + 1].address ELSE 0

\* VkAccelerationStructureInstanceKHR instance{}; ... instances.push_back(instance)
MakeInstance(x, y, builder) ==
    [transform |-> [tx |-> x, ty |-> y],
     instanceCustomIndex |-> 0,
     accelerationStructureReference |-> GetBlasDeviceAddress(builder, 0),
     instanceShaderBindingTableRecordOffset |-> 0,
     flags |-> "TRIANGLE_FACING_CULL_DISABLE",
     mask |-> 255]

InitScene ==
    /\ s_pc = "build_blas"
    /\ s_builder = EmptyBuilder
    /\ s_x = 0
    /\ s_y = 0
    /\ s_instances = << >>
    /\ s_regions = [raygen |-> UninitRegion, miss |-> UninitRegion,
                    hit |-> UninitRegion, callable |-> UninitRegion]
    /\ s_trace = << >>
    /\ MainParked
    /\ SbtParked
    /\ AccParked
    /\ WinParked
    /\ ExtraParked

\* raytracingBuilder.buildBlas(blases, ...); instances; x = -10; y = -10
SceneBuildBlas ==
    /\ s_pc = "build_blas"
    /\ s_pc' = "instances"
    /\ \E address \in DeviceAddresses :
          s_builder' = BuildBlasResult(s_builder, Blases, address)
    /\ s_x' = GridMin
    /\ s_y' = GridMin
    /\ UNCHANGED << s_instances, s_regions, s_trace, mainVars, sbtVars, accVars, winVars, extraVars >>

\* the body of the inner loop; y++
SceneAddInstance ==
    /\ s_pc = "instances"
    /\ GridContinue(s_x)
    /\ GridContinue(s_y)
    /\ s_instances' = Append(s_instances, MakeInstance(s_x, s_y, s_builder))
    /\ s_y' = s_y + 1
    /\ UNCHANGED << s_pc, s_builder, s_x, s_regions, s_trace,
                    mainVars, sbtVars, accVars, winVars, extraVars >>

\* the inner loop ends; x++; y = -10
SceneNextColumn ==
    /\ s_pc = "instances"
    /\ GridContinue(s_x)
    /\ ~GridContinue(s_y)
    /\ s_x' = s_x + 1
    /\ s_y' = GridMin
    /\ UNCHANGED << s_pc, s_builder, s_instances, s_regions, s_trace,
                    mainVars, sbtVars, accVars, winVars, extraVars >>

\* the outer loop ends; raytracingBuilder.buildTlas(instances, ...)
SceneBuildTlas ==
    /\ s_pc = "instances"
    /\ ~GridContinue(s_x)
    /\ s_pc' = "setup_regions"
    /\ s_builder' = [s_builder EXCEPT !.tlas = s_instances]
    /\ UNCHANGED << s_x, s_y, s_instances, s_regions, s_trace,
                    mainVars, sbtVars, accVars, winVars, extraVars >>

\* the four regions, over the stride and the SBT address of this device
SceneSetupRegions ==
    /\ s_pc = "setup_regions"
    /\ s_pc' = "trace"
    /\ \E address \in DeviceAddresses, h \in 1 .. MaxHandleSize, b \in 1 .. MaxAlignment :
          LET rayGen == RayGenRegion(address, SbtStride(h, b)) IN
          s_regions' = [raygen |-> rayGen, miss |-> EmptyRegion(rayGen),
                        hit |-> EmptyRegion(rayGen), callable |-> EmptyRegion(rayGen)]
    /\ UNCHANGED << s_builder, s_x, s_y, s_instances, s_trace,
                    mainVars, sbtVars, accVars, winVars, extraVars >>

\* vkCmdTraceRaysKHR(cmdBuffer, &sbtRayGenRegion, &sbtMissRegion, &sbtHitRegion, ...)
SceneTraceRays ==
    /\ s_pc = "trace"
    /\ s_pc' = "done"
    /\ s_trace' = Append(s_trace, s_regions)
    /\ UNCHANGED << s_builder, s_x, s_y, s_instances, s_regions,
                    mainVars, sbtVars, accVars, winVars, extraVars >>

NextScene ==
    \/ SceneBuildBlas
    \/ SceneAddInstance
    \/ SceneNextColumn
    \/ SceneBuildTlas
    \/ SceneSetupRegions
    \/ SceneTraceRays

SpecScene == InitScene /\ [][NextScene]_vars

\* The instance list has been handed to buildTlas.
TlasBuilt == s_pc \in {"setup_regions", "trace", "done"}

(* C13: every getBlasDeviceAddress(0) that fills an instance's reference   *)
(* is made after buildBlas has returned, so each reference is the address  *)
(* of the built BLAS 0, never the null address; buildTlas is handed only   *)
(* such instances.                                                         *)
C13_BlasAddressAfterBuild ==
    /\ s_instances # << >> => Len(s_builder.blas) = 1
    /\ \A k \in 1 .. Len(s_instances) :
          /\ s_instances[k].accelerationStructureReference # 0
          /\ s_instances[k].accelerationStructureReference = s_builder.blas[1].address
    /\ TlasBuilt
          => /\ s_builder.tlas = s_instances
             /\ \A k \in 1 .. Len(s_builder.tlas) :
                   s_builder.tlas[k].accelerationStructureReference = s_builder.blas[1].address

C13_Witness ==
    /\ TlasBuilt
    /\ Len(s_builder.tlas) > 0
    /\ s_builder.blas[1].address = 2
    /\ s_builder.tlas[1].accelerationStructureReference = 2

\* The grid positions of a list of instances.
Positions(instances) ==
    {<< instances[k].transform.tx, instances[k].transform.ty >> : k \in 1 .. Len(instances)}

(* C15: the list handed to buildTlas has exactly 441 instances, one for    *)
(* each (x, y) with x, y in -10 .. 10, and each references the device      *)
(* address of BLAS 0 with custom index 0, SBT record offset 0, mask 0xFF   *)
(* and the cull-disable flag.                                              *)
C15_InstanceGrid ==
    TlasBuilt
        => /\ Len(s_builder.tlas) = 441
           /\ Positions(s_builder.tlas) = (-10 .. 10) \X (-10 .. 10)
           /\ \A k \in 1 .. Len(s_builder.tlas) :
                 /\ s_builder.tlas[k].accelerationStructureReference =
                       GetBlasDeviceAddress(s_builder, 0)
                 /\ s_builder.tlas[k].instanceCustomIndex = 0
                 /\ s_builder.tlas[k].instanceShaderBindingTableRecordOffset = 0
                 /\ s_builder.tlas[k].mask = 255
                 /\ s_builder.tlas[k].flags = "TRIANGLE_FACING_CULL_DISABLE"

C15_Witness ==
    /\ s_pc = "done"
    /\ Len(s_builder.tlas) = 441
    /\ s_builder.tlas[1].transform = [tx |-> -10, ty |-> -10]
    /\ s_builder.tlas[22].transform = [tx |-> -9, ty |-> -10]
    /\ s_builder.tlas[441].transform = [tx |-> 10, ty |-> 10]

(* C16: for every instance of the TLAS, the SBT record offset selects a    *)
(* record inside the hit region handed to trace-rays:                      *)
(* offset * stride < hit region size.                                      *)
C16_RecordOffsetInsideHitRegion ==
    \A t \in 1 .. Len(s_trace) :
        \A k \in 1 .. Len(s_builder.tlas) :
            s_builder.tlas[k].instanceShaderBindingTableRecordOffset * s_trace[t].hit.stride
                < s_trace[t].hit.size

(***************************************************************************)
(* SpecWindow: PathTracerWindow of the windowed application: begin(), then *)
(* think() once per frame, resize() on a window size change, end() at      *)
(* close.  Every Vulkan create call returns a VkResult; the class looks at *)
(* none of them.  The device works off what think() submitted on its own.  *)
(***************************************************************************)

\* VkResult of a create call: success, or an error code
VkResults == {"VK_SUCCESS", "VK_ERROR_OUT_OF_DEVICE_MEMORY"}

\* VK_NULL_HANDLE, the handle no object has
NullHandle == 0

\* The handle a create call leaves in its output parameter.
CreatedHandle(result, handle) == IF result = "VK_SUCCESS" THEN handle ELSE NullHandle

\* A Vulkan call and what it returned, appended to the calls made so far.
DeviceCall(calls, name, result) == Append(calls, [call |-> name, result |-> result])

\* vkDeviceWaitIdle(m_context) returns once the device has no work in flight.
DeviceWaitIdle(busy) == ~busy

\* destroyFramebuffers(): vkDestroyFramebuffer on every entry of the list, in
\* order; each call is kept with whether the device was still working.
DestroyFramebuffers(log, framebuffers, busy) ==
    log \o [k \in 1 .. Len(framebuffers) |-> [handle |-> framebuffers[k], busy |-> busy]]

\* The framebuffer handle has been passed to vkDestroyFramebuffer.
WasDestroyed(log, handle) ==
    /\ handle # NullHandle
    /\ \E k \in 1 .. Len(log) : log[k].handle = handle

\* Statement order of begin().
WinGoto(from, to) == w_pc = from /\ w_pc' = to

\* The other programs' variables, which begin() does not touch.
winEnv == << mainVars, sbtVars, accVars, sceneVars, extraVars >>

InitWindow ==
    /\ w_pc = "begin"
    /\ w_calls = << >>
    /\ w_imageCount = 0
    /\ w_framebuffers = << >>
    /\ w_i = 0
    /\ w_busy = FALSE
    /\ w_destroyed = << >>
    /\ w_handles = 0
    /\ w_resizes = 0
    /\ w_pass = << >>
    /\ MainParked
    /\ SbtParked
    /\ AccParked
    /\ SceneParked
    /\ ExtraParked

\* m_context.init(deviceInfo); m_swapchain.init, update; m_descriptorPool.init
WinContextInit ==
    /\ WinGoto("begin", "create_cmd_pool")
    /\ \E count \in 1 .. MaxImages : w_imageCount' = count
    /\ UNCHANGED << winEnv, w_calls, w_framebuffers, w_i, frameVars >>

\* vkCreateCommandPool(m_context, &cmdPoolInfo, nullptr, &m_cmdPool);
WinCreateCommandPool ==
    /\ WinGoto("create_cmd_pool", "create_render_pass")
    /\ \E result \in VkResults : w_calls' = DeviceCall(w_calls, "vkCreateCommandPool", result)
    /\ UNCHANGED << winEnv, w_imageCount, w_framebuffers, w_i, frameVars >>

\* vkCreateRenderPass(m_context, &renderPassInfo, nullptr, &m_renderPass);
\* createFramebuffers(): m_framebuffers.resize(m_swapchain.getImageCount()); i = 0
WinCreateRenderPass ==
    /\ WinGoto("create_render_pass", "create_framebuffers")
    /\ \E result \in VkResults : w_calls' = DeviceCall(w_calls, "vkCreateRenderPass", result)
    /\ w_framebuffers' = [k \in 1 .. w_imageCount |-> NullHandle]
    /\ w_i' = 0
    /\ UNCHANGED << winEnv, w_imageCount, frameVars >>

\* for(i < getImageCount()) vkCreateFramebuffer(..., &m_framebuffers[i]); i++
\* (called from begin() and from resize(); the driver hands out a new handle)
WinCreateFramebuffer ==
    /\ w_pc \in {"create_framebuffers", "resize_framebuffers"}
    /\ w_i < w_imageCount
    /\ \E result \in VkResults :
          /\ w_calls' = DeviceCall(w_calls, "vkCreateFramebuffer", result)
          /\ w_framebuffers' =
                [w_framebuffers EXCEPT ![w_i + 1] = CreatedHandle(result, w_handles + 1)]
    /\ w_handles' = w_handles + 1
    /\ w_i' = w_i + 1
    /\ UNCHANGED << winEnv, w_pc, w_imageCount, w_busy, w_destroyed, w_resizes, w_pass >>

\* loop exit; createPipeline(): createShaderModule twice, vkCreatePipelineLayout
WinCreatePipelineLayout ==
    /\ WinGoto("create_framebuffers", "create_pipeline")
    /\ ~(w_i < w_imageCount)
    /\ \E result \in VkResults : w_calls' = DeviceCall(w_calls, "vkCreatePipelineLayout", result)
    /\ UNCHANGED << winEnv, w_imageCount, w_framebuffers, w_i, frameVars >>

\* vkCreateGraphicsPipelines(...); vkDestroyShaderModule twice; return true
WinCreateGraphicsPipelines ==
    /\ WinGoto("create_pipeline", "running")
    /\ \E result \in VkResults : w_calls' = DeviceCall(w_calls, "vkCreateGraphicsPipelines", result)
    /\ UNCHANGED << winEnv, w_imageCount, w_framebuffers, w_i, frameVars >>

\* think(): cmd = m_swapchain.createCommandBuffer(m_cmdPool);
\* renderPassInfo.framebuffer = m_framebuffers[m_swapchain.getActiveImageIndex()];
\* vkCmdBeginRenderPass ... vkCmdEndRenderPass; m_swapchain.presentCommandBuffer
WinThink ==
    /\ w_pc = "running"
    /\ \E index \in 0 .. w_imageCount - 1 :
          w_pass' = [framebuffer |-> w_framebuffers[index + 1],
                     destroyed |-> WasDestroyed(w_destroyed, w_framebuffers[index + 1])]
    /\ w_busy' = TRUE
    /\ UNCHANGED << winEnv, w_pc, w_calls, w_imageCount, w_framebuffers, w_i,
                    w_destroyed, w_handles, w_resizes >>

\* The device finishes the work submitted to it.
WinDeviceDone ==
    /\ w_busy
    /\ w_busy' = FALSE
    /\ UNCHANGED << winEnv, w_pc, w_calls, w_imageCount, w_framebuffers, w_i,
                    w_destroyed, w_handles, w_resizes, w_pass >>

\* resize(): vkDeviceWaitIdle; destroyFramebuffers() (destroy each, clear());
\* m_swapchain.update(width, height);
\* createFramebuffers(): m_framebuffers.resize(m_swapchain.getImageCount()); i = 0
WinResize ==
    /\ WinGoto("running", "resize_framebuffers")
    /\ w_resizes < MaxResizes
    /\ DeviceWaitIdle(w_busy)
    /\ w_destroyed' = DestroyFramebuffers(w_destroyed, w_framebuffers, w_busy)
    /\ \E count \in 1 .. MaxImages :
          /\ w_imageCount' = count
          /\ w_framebuffers' = [k \in 1 .. count |-> NullHandle]
    /\ w_i' = 0
    /\ w_resizes' = w_resizes + 1
    /\ UNCHANGED << winEnv, w_calls, w_busy, w_handles, w_pass >>

\* loop exit of createFramebuffers() in resize(); resize() returns
WinResizeReturn ==
    /\ WinGoto("resize_framebuffers", "running")
    /\ ~(w_i < w_imageCount)
    /\ UNCHANGED << winEnv, w_calls, w_imageCount, w_framebuffers, w_i, frameVars >>

\* end(): vkDeviceWaitIdle; destroyFramebuffers() (destroy each, clear());
\* render pass, pipeline, layout, command pool, pools, swapchain, context
WinEnd ==
    /\ WinGoto("running", "ended")
    /\ DeviceWaitIdle(w_busy)
    /\ w_destroyed' = DestroyFramebuffers(w_destroyed, w_framebuffers, w_busy)
    /\ w_framebuffers' = << >>
    /\ UNCHANGED << winEnv, w_calls, w_imageCount, w_i, w_busy, w_handles, w_resizes, w_pass >>

NextWindow ==
    \/ WinContextInit
    \/ WinCreateCommandPool
    \/ WinCreateRenderPass
    \/ WinCreateFramebuffer
    \/ WinCreatePipelineLayout
    \/ WinCreateGraphicsPipelines
    \/ WinThink
    \/ WinDeviceDone
    \/ WinResize
    \/ WinResizeReturn
    \/ WinEnd

SpecWindow == InitWindow /\ [][NextWindow]_vars

(* C20: when a device call returns an error code the process stops at     *)
(* once: no device call is issued after a call that failed, and begin()   *)
(* does not return success after a failed call.                           *)
C20_NoCallAfterDeviceError ==
    /\ \A k \in 1 .. Len(w_calls) - 1 : w_calls[k].result = "VK_SUCCESS"
    /\ w_pc = "running" => \A k \in 1 .. Len(w_calls) : w_calls[k].result = "VK_SUCCESS"

\* The framebuffers that exist: created, held in m_framebuffers, not destroyed.
LiveFramebuffers ==
    { w_framebuffers[k] : k \in DOMAIN w_framebuffers }
        \ ({NullHandle} \cup { w_destroyed[k].handle : k \in DOMAIN w_destroyed })

\* Every vkCreateFramebuffer call so far returned VK_SUCCESS.
FramebuffersCreated ==
    \A k \in 1 .. Len(w_calls) :
        w_calls[k].call = "vkCreateFramebuffer" => w_calls[k].result = "VK_SUCCESS"

(* C30: between the calls of begin(), resize() and end() there are as many *)
(* live framebuffers as the swapchain has images; no framebuffer is        *)
(* destroyed while the device is still working; no framebuffer is          *)
(* destroyed twice; think() records no render pass with a destroyed        *)
(* framebuffer.                                                            *)
C30_FramebuffersFollowSwapchain ==
    /\ w_pc = "running" => Cardinality(LiveFramebuffers) = w_imageCount
    /\ \A k \in 1 .. Len(w_destroyed) : ~w_destroyed[k].busy
    /\ \A j, k \in 1 .. Len(w_destroyed) :
          (j # k /\ w_destroyed[j].handle # NullHandle)
              => w_destroyed[j].handle # w_destroyed[k].handle
    /\ w_pass # << >> => ~w_pass.destroyed

\* The same, for the runs in which every framebuffer was created.
FramebuffersFollowSwapchainWhenCreated ==
    FramebuffersCreated => C30_FramebuffersFollowSwapchain

\* A resized window whose frame is drawn from a framebuffer made by resize().
ResizedAndDrawn ==
    /\ w_resizes = MaxResizes
    /\ w_busy
    /\ w_pass # << >>
    /\ w_pass.framebuffer \in LiveFramebuffers
    /\ Len(w_destroyed) > 0
    /\ FramebuffersCreated

(***************************************************************************)
(* SpecRuns: main() run twice on the same mesh and the same device limits. *)
(* A run is followed through what it feeds the GPU: the instance           *)
(* transforms, the push constants and the commands of each batch.  The     *)
(* device addresses the driver hands out may differ from run to run.       *)
(***************************************************************************)

\* A seed taken from the run itself (as std::random_device would give).
EngineSeed_PerRun(run) == run

\* std::default_random_engine randomEngine: default-constructed, seed 1
EngineSeed(run) == 1

\* One step of the engine (minstd_rand0: x * 16807 mod 2^31 - 1, computed
\* without leaving 32 bits).
EngineNext(x) ==
    LET t == 16807 * (x % 127773) - 2836 * (x \div 127773)
    IN IF t < 0 THEN t + 2147483647 ELSE t

\* uniformDist(randomEngine) for uniform_real_distribution<float>(-0.5f, 0.5f):
\* (x - 1) / (2^31 - 2) - 0.5 of the engine's output x, before rounding to
\* float, as a fraction
UniformDist(x) == [num |-> x - 1 - 1073741823, den |-> 2147483646]

\* The transform of the instance at (x, y): rotations about the x and the y
\* axis by the next two draws, scale 1/2.7, translation to (x, y, 0)
InstanceTransform(x, y, engine) ==
    [rotX |-> UniformDist(EngineNext(engine)),
     rotY |-> UniformDist(EngineNext(EngineNext(engine))),
     tx |-> x, ty |-> y]

\* The two runs.
Runs == 1 .. 2

\* A run before main() is entered.
NotStarted ==
    [rpc |-> "start", engine |-> 0, x |-> 0, y |-> 0, blasRef |-> 0, sbtAddress |-> 0,
     transforms |-> << >>, constants |-> [sample_batch |-> 0], batch |-> 0,
     pushes |-> << >>, commands |-> << >>]

\* The run that is executing: the second run starts when the first has ended.
Active(r) == d_runs[r].rpc # "done" /\ \A q \in Runs : q < r => d_runs[q].rpc = "done"

\* The other specifications' variables.
runEnv == << mainVars, sbtVars, accVars, sceneVars, winVars, p_path, m_mesh, z_sbt >>

InitRuns ==
    /\ d_runs = [r \in Runs |-> NotStarted]
    /\ MainParked
    /\ SbtParked
    /\ AccParked
    /\ SceneParked
    /\ WinParked
    /\ PathParked
    /\ MeshParked
    /\ SizeParked

\* buildBlas; randomEngine, uniformDist; x = -10; y = -10
RunBuildBlas ==
    \E r \in Runs :
        /\ Active(r)
        /\ d_runs[r].rpc = "start"
        /\ \E blasAddress \in DeviceAddresses, sbtAddress \in DeviceAddresses :
              d_runs' = [d_runs EXCEPT ![r] =
                            [@ EXCEPT !.rpc = "instances", !.engine = EngineSeed(r),
                                      !.x = GridMin, !.y = GridMin,
                                      !.blasRef = blasAddress, !.sbtAddress = sbtAddress]]
        /\ UNCHANGED runEnv

\* inner loop body: transform, instance, instances.push_back(instance); y++,
\* and at the end of a column x++, y = -10
RunAddInstance ==
    \E r \in Runs :
        /\ Active(r)
        /\ d_runs[r].rpc = "instances"
        /\ GridContinue(d_runs[r].x)
        /\ LET run == d_runs[r]
               lastOfColumn == ~GridContinue(run.y + 1)
           IN d_runs' = [d_runs EXCEPT ![r] =
                [run EXCEPT !.transforms =
                                Append(@, InstanceTransform(run.x, run.y, run.engine)),
                            !.engine = EngineNext(EngineNext(@)),
                            !.x = IF lastOfColumn THEN @ + 1 ELSE @,
                            !.y = IF lastOfColumn THEN GridMin ELSE @ + 1]]
        /\ UNCHANGED runEnv

\* outer loop exit; buildTlas(instances, ...); ...; sampleBatch = 0
RunBuildTlas ==
    \E r \in Runs :
        /\ Active(r)
        /\ d_runs[r].rpc = "instances"
        /\ ~GridContinue(d_runs[r].x)
        /\ d_runs' = [d_runs EXCEPT ![r] = [@ EXCEPT !.rpc = "batches", !.batch = 0]]
        /\ UNCHANGED runEnv

\* one sample batch: pushConstants.sample_batch = sampleBatch, the recorded
\* commands, submit and wait; sampleBatch++
RunBatch ==
    \E r \in Runs :
        /\ Active(r)
        /\ d_runs[r].rpc = "batches"
        /\ d_runs[r].batch < NUM_SAMPLE_BATCHES
        /\ LET run == d_runs[r]
               constants == SetSampleBatch(run.constants, run.batch)
               rayGen == RayGenRegion(run.sbtAddress,
                                      SbtStride(SupportedDevice.shaderGroupHandleSize,
                                                SupportedDevice.shaderGroupBaseAlignment))
               regs == [raygen |-> rayGen, miss |-> EmptyRegion(rayGen),
                        hit |-> EmptyRegion(rayGen), callable |-> EmptyRegion(rayGen)]
           IN d_runs' = [d_runs EXCEPT ![r] =
                [run EXCEPT !.constants = constants,
                            !.pushes = Append(@, constants),
                            !.commands = Append(@, BatchCommands(run.batch, constants, regs)),
                            !.batch = NextSampleBatch(@)]]
        /\ UNCHANGED runEnv

\* loop exit, readback, teardown, return
RunExit ==
    \E r \in Runs :
        /\ Active(r)
        /\ d_runs[r].rpc = "batches"
        /\ ~(d_runs[r].batch < NUM_SAMPLE_BATCHES)
        /\ d_runs' = [d_runs EXCEPT ![r] = [@ EXCEPT !.rpc = "done"]]
        /\ UNCHANGED runEnv

NextRuns ==
    \/ RunBuildBlas
    \/ RunAddInstance
    \/ RunBuildTlas
    \/ RunBatch
    \/ RunExit

SpecRuns == InitRuns /\ [][NextRuns]_vars

\* A recorded command without the device addresses in it.
WithoutAddresses(c) ==
    IF c.op = "TraceRays"
    THEN [op |-> c.op,
          arg |-> [k \in DOMAIN c.arg |-> [stride |-> c.arg[k].stride, size |-> c.arg[k].size]]]
    ELSE c

\* What a run has fed to the GPU: transforms, push constants, commands.
Feed(run) ==
    [transforms |-> run.transforms,
     pushes |-> run.pushes,
     commands |-> [b \in DOMAIN run.commands |->
                      [k \in DOMAIN run.commands[b] |-> WithoutAddresses(run.commands[b][k])]]]

\* s is an initial part of t.
IsPrefix(s, t) == Len(s) <= Len(t) /\ s = SubSeq(t, 1, Len(s))

NUM_SAMPLES == 4

\* while (... && prd.depth < 8)
MaxDepth == 8

\* if (prd.depth > 3): Russian roulette starts above this depth
RouletteDepth == 3

\* A loop test that lets depth 8 through.
LoopContinues_Inclusive(prd) == ~prd.done /\ prd.depth <= MaxDepth

\* while (!prd.done && prd.depth < 8)
LoopContinues(prd) == ~prd.done /\ prd.depth < MaxDepth

\* prd.depth = 0; prd.done = false
InitialPayload == [depth |-> 0, done |-> FALSE]

\* miss shader: prd.done = true
Miss(prd) == [prd EXCEPT !.done = TRUE]

\* closest-hit shader: above the roulette depth the path may be ended
\* (prd.done = true; return); otherwise prd.depth++
ClosestHit(prd, rouletteEnds) ==
    IF prd.depth > RouletteDepth /\ rouletteEnds
    THEN [prd EXCEPT !.done = TRUE]
    ELSE [prd EXCEPT !.depth = @ + 1]

\* The other specifications' variables.
pathEnv == << mainVars, sbtVars, accVars, sceneVars, winVars, d_runs, m_mesh, z_sbt >>

InitPath ==
    /\ p_path = [ppc |-> "sample", i |-> 0, prd |-> InitialPayload, traces |-> 0,
                 last |-> "none", counts |-> << >>]
    /\ MainParked
    /\ SbtParked
    /\ AccParked
    /\ SceneParked
    /\ WinParked
    /\ RunsParked
    /\ MeshParked
    /\ SizeParked

\* for(i < NUM_SAMPLES): camera ray, prd.depth = 0, prd.done = false
PathBeginSample ==
    /\ p_path.ppc = "sample"
    /\ p_path.i < NUM_SAMPLES
    /\ p_path' = [p_path EXCEPT !.ppc = "loop", !.prd = InitialPayload, !.traces = 0,
                                !.last = "none"]
    /\ UNCHANGED pathEnv

\* loop test passes; traceRayEXT ends in the miss shader
PathTraceMiss ==
    /\ p_path.ppc = "loop"
    /\ LoopContinues(p_path.prd)
    /\ p_path' = [p_path EXCEPT !.prd = Miss(@), !.traces = @ + 1, !.last = "miss"]
    /\ UNCHANGED pathEnv

\* loop test passes; traceRayEXT ends in the closest-hit shader
PathTraceClosestHit ==
    /\ p_path.ppc = "loop"
    /\ LoopContinues(p_path.prd)
    /\ \E rouletteEnds \in BOOLEAN :
          p_path' = [p_path EXCEPT !.prd = ClosestHit(@, rouletteEnds), !.traces = @ + 1,
                                   !.last = "hit"]
    /\ UNCHANGED pathEnv

\* loop exit; finalColor += prd.hitValue; i++
PathEndSample ==
    /\ p_path.ppc = "loop"
    /\ ~LoopContinues(p_path.prd)
    /\ p_path' = [p_path EXCEPT !.ppc = "sample", !.i = @ + 1,
                                !.counts = Append(@, p_path.traces)]
    /\ UNCHANGED pathEnv

\* sample loop exit; finalColor /= NUM_SAMPLES; imageStore
PathStore ==
    /\ p_path.ppc = "sample"
    /\ ~(p_path.i < NUM_SAMPLES)
    /\ p_path' = [p_path EXCEPT !.ppc = "stored"]
    /\ UNCHANGED pathEnv

NextPath ==
    \/ PathBeginSample
    \/ PathTraceMiss
    \/ PathTraceClosestHit
    \/ PathEndSample
    \/ PathStore

SpecPath == InitPath /\ [][NextPath]_vars /\ WF_vars(NextPath)

(* C27: the path loop ends after at most 8 trace calls per sample: from    *)
(* depth = 0 and done = false each trace call either sets done (the miss   *)
(* shader, or the closest-hit shader's roulette, only above depth 3) or    *)
(* adds exactly one to depth, so the number of trace calls of a sample is  *)
(* depth, plus one when done is set, never above 8; and every invocation   *)
(* reaches its image store.                                                *)
C27_PathLoopTerminates ==
    /\ [](/\ p_path.prd.depth \in 0 .. MaxDepth
          /\ p_path.traces <= MaxDepth
          /\ p_path.traces = p_path.prd.depth + (IF p_path.prd.done THEN 1 ELSE 0)
          /\ (p_path.prd.done /\ p_path.last = "hit") => p_path.prd.depth > RouletteDepth
          /\ \A k \in 1 .. Len(p_path.counts) : p_path.counts[k] \in 1 .. MaxDepth)
    /\ [][p_path.ppc = "loop" /\ p_path'.ppc = "loop"
            => /\ p_path'.traces = p_path.traces + 1
               /\ \/ p_path'.prd.done /\ p_path'.prd.depth = p_path.prd.depth
                  \/ ~p_path'.prd.done /\ p_path'.prd.depth = p_path.prd.depth + 1]_vars
    /\ <>(p_path.ppc = "stored")

C27_Witness ==
    /\ p_path.ppc = "stored"
    /\ p_path.counts = << 1, MaxDepth, 5, MaxDepth >>
    /\ p_path.prd.depth = MaxDepth
    /\ ~p_path.prd.done

(***************************************************************************)
(* SpecMesh: the sizes main() derives from the parsed mesh                 *)
(* (main.cpp 189-199, 216-217, 262-294).  objVertices holds three          *)
(* coordinates per vertex and objIndices three indices per triangle.       *)
(***************************************************************************)

\* 2^n
RECURSIVE Pow2(_)
Pow2(n) == IF n = 0 THEN 1 ELSE 2 * Pow2(n - 1)

\* A size_t or VkDeviceSize no wider than a uint32_t.
WideBits_Narrow == WordBits

\* Width of size_t and of VkDeviceSize
WideBits == 2 * WordBits

\* Unsigned arithmetic in size_t / VkDeviceSize: the value modulo 2^width
ToWide(v) == v % Pow2(WideBits)

\* static_cast<uint32_t>(v)
ToWord(v) == v % Pow2(WordBits)

\* static_cast<uint32_t>(objVertices.size() / 3 - 1)
MaxVertex(coords) == ToWord(ToWide(ToWide(coords \div 3) - 1))

\* static_cast<uint32_t>(objIndices.size() / 3)
PrimitiveCount(indices) == ToWord(ToWide(indices \div 3))

\* The other specifications' variables.
meshEnv == << mainVars, sbtVars, accVars, sceneVars, winVars, d_runs, p_path, z_sbt >>

InitMesh ==
    /\ \E v \in 0 .. MaxVertices, t \in 0 .. MaxTriangles :
          m_mesh = [mpc |-> "parsed", coords |-> 3 * v, indices |-> 3 * t,
                    vertexBytes |-> 0, indexEntries |-> 0,
                    maxVertex |-> 0, primitiveCount |-> 0]
    /\ MainParked
    /\ SbtParked
    /\ AccParked
    /\ SceneParked
    /\ WinParked
    /\ RunsParked
    /\ PathParked
    /\ SizeParked

\* vertexBuffer = createBuffer(uploadCmdBuffer, objVertices, usage);
\* indexBuffer = createBuffer(uploadCmdBuffer, objIndices, usage)
MeshUpload ==
    /\ m_mesh.mpc = "parsed"
    /\ m_mesh' = [m_mesh EXCEPT !.mpc = "uploaded",
                                !.vertexBytes = 4 * m_mesh.coords,
                                !.indexEntries = m_mesh.indices]
    /\ UNCHANGED meshEnv

\* triangles.maxVertex, offsetInfo.primitiveCount
MeshDescribeBlas ==
    /\ m_mesh.mpc = "uploaded"
    /\ m_mesh' = [m_mesh EXCEPT !.mpc = "described",
                                !.maxVertex = MaxVertex(m_mesh.coords),
                                !.primitiveCount = PrimitiveCount(m_mesh.indices)]
    /\ UNCHANGED meshEnv

NextMesh ==
    \/ MeshUpload
    \/ MeshDescribeBlas

SpecMesh == InitMesh /\ [][NextMesh]_vars

(* C28: for every parsed mesh with C coordinates and I indices the BLAS    *)
(* input describes only uploaded data: maxVertex = floor(C/3) - 1 and      *)
(* primitiveCount = floor(I/3), (maxVertex + 1) vertices of 12 bytes fit   *)
(* in the 4*C-byte vertex buffer and 3 * primitiveCount indices fit in     *)
(* the I-entry index buffer, with no unsigned wrap-around.                 *)
C28_BlasInputWithinUploadedData ==
    m_mesh.mpc = "described"
        => /\ m_mesh.maxVertex = (m_mesh.coords \div 3) - 1
           /\ m_mesh.primitiveCount = m_mesh.indices \div 3
           /\ (m_mesh.maxVertex + 1) * 12 <= m_mesh.vertexBytes
           /\ 3 * m_mesh.primitiveCount <= m_mesh.indexEntries

(***************************************************************************)
(* SpecSize: the SBT sizing of main() (main.cpp 81-100, 462) with the      *)
(* widths of its integers: the device properties are uint32_t, widened to  *)
(* VkDeviceSize; sbtSize is narrowed back to uint32_t.                     *)
(***************************************************************************)

\* sbtBaseAlignment * ((sbtHeaderSize + sbtBaseAlignment - 1) / sbtBaseAlignment)
\* in VkDeviceSize arithmetic
WideStride(h, b) == ToWide(b * (ToWide(ToWide(h + b) - 1) \div b))

\* static_cast<uint32_t>(sbtStride * groups.size())
NarrowSbtSize(stride, groupCount) == ToWord(ToWide(stride * groupCount))

\* The other specifications' variables.
sizeEnv == << mainVars, sbtVars, accVars, sceneVars, winVars, d_runs, p_path, m_mesh >>

InitSize ==
    /\ \E h \in 0 .. (Pow2(WordBits) - 1), b \in 1 .. (Pow2(WordBits) - 1),
          m \in 0 .. (Pow2(WordBits) - 1) :
          z_sbt = [zpc |-> "props", shaderGroupHandleSize |-> h,
                   shaderGroupBaseAlignment |-> b, maxShaderGroupStride |-> m,
                   sbtStride |-> 0, sbtSize |-> 0]
    /\ MainParked
    /\ SbtParked
    /\ AccParked
    /\ SceneParked
    /\ WinParked
    /\ RunsParked
    /\ PathParked
    /\ MeshParked

\* const VkDeviceSize sbtStride = ...
SizeComputeStride ==
    /\ z_sbt.zpc = "props"
    /\ z_sbt' = [z_sbt EXCEPT !.zpc = "stride",
                              !.sbtStride = WideStride(z_sbt.shaderGroupHandleSize,
                                                       z_sbt.shaderGroupBaseAlignment)]
    /\ UNCHANGED sizeEnv

\* const uint32_t sbtSize = static_cast<uint32_t>(sbtStride * groups.size())
SizeComputeSbtSize ==
    /\ z_sbt.zpc = "stride"
    /\ z_sbt' = [z_sbt EXCEPT !.zpc = "size",
                              !.sbtSize = NarrowSbtSize(z_sbt.sbtStride, GroupCount)]
    /\ UNCHANGED sizeEnv

NextSize ==
    \/ SizeComputeStride
    \/ SizeComputeSbtSize

SpecSize == InitSize /\ [][NextSize]_vars

(* C29: nothing in the SBT sizing wraps or truncates: with the device      *)
(* properties being word-wide values widened to twice the width,           *)
(* handleSize + baseAlignment - 1 and the stride equal their exact         *)
(* values, and whenever stride <= maxShaderGroupStride holds the narrowed  *)
(* sbtSize equals stride * groupCount.                                     *)
C29_SbtSizingDoesNotWrap ==
    LET h == z_sbt.shaderGroupHandleSize
        b == z_sbt.shaderGroupBaseAlignment
    IN /\ z_sbt.zpc \in {"stride", "size"}
             => /\ h + b - 1 < Pow2(2 * WordBits)
                /\ z_sbt.sbtStride = SbtStride(h, b)
                /\ z_sbt.sbtStride = LeastMultipleAtLeast(h, b)
       /\ (z_sbt.zpc = "size" /\ StrideOk(z_sbt.sbtStride, z_sbt.maxShaderGroupStride))
             => z_sbt.sbtSize = SbtSize(SbtStride(h, b), GroupCount)

C29_Witness ==
    /\ z_sbt.zpc = "size"
    /\ z_sbt.shaderGroupHandleSize = Pow2(WordBits) - 1
    /\ z_sbt.shaderGroupBaseAlignment = Pow2(WordBits) - 1
    /\ z_sbt.maxShaderGroupStride = Pow2(WordBits) - 1
    /\ z_sbt.shaderGroupHandleSize + z_sbt.shaderGroupBaseAlignment - 1 >= Pow2(WordBits)
    /\ z_sbt.sbtSize = Pow2(WordBits) - 1

(***************************************************************************)
(* SpecAccum: the ray-generation shader's accumulation into the            *)
(* persistent image (_edit/shaders/fullscreen.vert.glsl 92-106), for one   *)
(* pixel and one colour channel.  Colours are exact rationals << n, d >>   *)
(* with d > 0, kept in lowest terms; floating-point rounding is left out.  *)
(***************************************************************************)
RECURSIVE Gcd(_, _)
\* Greatest common divisor of two naturals.
Gcd(x, y) == IF y = 0 THEN x ELSE Gcd(y, x % y)

\* Absolute value.
Abs(x) == IF x < 0 THEN -x ELSE x

\* The rational n/d in lowest terms.
Rat(n, d) ==
    LET g == Gcd(Abs(n), d) IN
    IF g = 0 THEN << 0, 1 >> ELSE << n \div g, d \div g >>

\* Sum, difference and product of rationals.
RAdd(x, y) == Rat(x[1] * y[2] + y[1] * x[2], x[2] * y[2])
RSub(x, y) == Rat(x[1] * y[2] - y[1] * x[2], x[2] * y[2])
RMul(x, y) == Rat(x[1] * y[1], x[2] * y[2])

\* GLSL mix(x, y, a) = x * (1 - a) + y * a
Mix(x, y, a) == RAdd(RMul(x, RSub(Rat(1, 1), a)), RMul(y, a))

\* float alpha = 1.0/pcRay.frame  (evaluated only when frame # 0)
Alpha(frame) == Rat(1, frame)

\* The value main() stores at the pixel: finalColor on frame 0, otherwise
\* mix(currentColor, finalColor, alpha).
Accumulate(currentColor, finalColor, frame) ==
    IF frame = 0 THEN finalColor
    ELSE Mix(currentColor, finalColor, Alpha(frame))

\* The host dispatches consecutive frames: the frame index pushed for the
\* next dispatch is one more than the previous one.
NextFrame(frame) == frame + 1

InitAccum ==
    /\ a_frame = 0
    /\ a_image = << 0, 1 >>
    /\ a_batches = << >>
    /\ MainParked
    /\ SbtParked
    /\ AuxParked

\* One dispatch of the shader at a pixel: the path loop yields finalColor,
\* the pixel is loaded, blended and stored.
RayGenMain ==
    /\ a_frame <= MaxFrame
    /\ \E finalColor \in 1 .. MaxBatchValue :
          /\ a_image' = Accumulate(a_image, Rat(finalColor, 1), a_frame)
          /\ a_batches' = Append(a_batches, finalColor)
    /\ a_frame' = NextFrame(a_frame)
    /\ UNCHANGED << mainVars, sbtVars, auxVars >>

NextAccum == RayGenMain

SpecAccum == InitAccum /\ [][NextAccum]_vars

RECURSIVE SeqSum(_)
\* Sum of a sequence of integers.
SeqSum(q) == IF q = << >> THEN 0 ELSE q[1] + SeqSum(Tail(q))

(* C8: after the dispatches of frames 0 .. k the stored pixel is the       *)
(* arithmetic mean of the k+1 batch values (the frame-k store being        *)
(* mix(previous, new, 1/(k+1)), and the frame-0 store the new value).      *)
C8_StoredPixelIsRunningMean ==
    a_batches # << >>
        => a_image = Rat(SeqSum(a_batches), Len(a_batches))

\* The two-batch sequence of the specification: batch0 = 1.0, batch1 = 3.0.
C8_TwoBatchCase ==
    a_batches = << 1, 3 >> => a_image = Rat(2, 1)

=============================================================================
